---------------------------- MODULE Spec2Model ----------------------------
(***************************************************************************)
(* GitHub token verification: the two token verifiers                      *)
(* (tools/github_verifier.py, verify.py) and the three-node workflow of    *)
(* main_workflow.py / graph_nodes.py, with the two LLM nodes and the HTTP   *)
(* endpoint of app.py; and the audit scripts user_list.py,                 *)
(* verify_dependabot_status.py and branching_and_versioning.py.            *)
(*                                                                         *)
(* Python values are modelled as follows: str is a TLA+ string, a list is  *)
(* a sequence, a dict is a record, and an Optional value is a sequence of  *)
(* length at most one (None is << >>, a value v is << v >>).               *)
(***************************************************************************)
EXTENDS Integers, Sequences, FiniteSets, TLC

VARIABLES
    pc,          \* position of the main_workflow process
    state,       \* GithubTokenVerificationState threaded through the graph
    executed,    \* nodes executed by the current run, in order
    calls,       \* external calls made by the current run, in order
    http,        \* Optional: what requests.get did for the verify node
    final_state, \* Optional: the state returned by run
    tool_http,   \* Optional: what requests.get did for verify.py's call
    tool_output, \* Optional: what verify.py's __main__ printed
    llm_log,     \* what each LLM call of the current run did, in order
    verifier,    \* Optional: an upstream and the verifier calls made against it
    runs,        \* Optional: the heap, the files and two interleaved calls of run
    pager,       \* Optional: a pagination loop
    dependabot,  \* Optional: a call of verify_dependabot_status
    team_csv,    \* Optional: a call of get_team_member_roles_to_csv
    endpoint     \* Optional: a request to the endpoint of app.py

workflow_vars ==
    <<pc, state, executed, calls, http, final_state, tool_http, tool_output, llm_log>>

script_vars == <<verifier, runs, pager, dependabot, team_csv, endpoint>>

vars == <<workflow_vars, script_vars>>

None == << >>
Some(v) == << v >>

-----------------------------------------------------------------------------
(* Bounds of the model.                                                    *)

\* Longest X-OAuth-Scopes header value that is enumerated.
MaxHdrLen == 4

\* calls of a verifier made against one unchanged upstream
MaxCalls == 2

\* the upstream serves at most this many pages of a listing
MaxPages == 3

-----------------------------------------------------------------------------
(* Python str operations used by the verifiers.                            *)

UPPERCASE == "ABCDEFGHIJKLMNOPQRSTUVWXYZ"
LOWERCASE == "abcdefghijklmnopqrstuvwxyz"
\* the ASCII characters str.strip() removes: space, \t, \n, \r, \f, and the
\* control characters 0x0b, 0x1c, 0x1d, 0x1e, 0x1f (written raw below). The
\* strings of the model are ASCII; str.strip() also removes the whitespace
\* of Unicode (0x85, 0xa0, ...).
WHITESPACE == {" ", "\t", "\n", "\r", "\f", "", "", "", "", ""}

Char(s, i) == SubSeq(s, i, i)

LowerChar(c) ==
    IF \E i \in 1..Len(UPPERCASE) : Char(UPPERCASE, i) = c
    THEN Char(LOWERCASE, CHOOSE i \in 1..Len(UPPERCASE) : Char(UPPERCASE, i) = c)
    ELSE c

RECURSIVE StrLower(_)
\* str.lower()
StrLower(s) ==
    IF Len(s) = 0 THEN ""
    ELSE IF Len(s) = 1 THEN LowerChar(s)
    ELSE LET mid == Len(s) \div 2
         IN  StrLower(SubSeq(s, 1, mid)) \o StrLower(SubSeq(s, mid + 1, Len(s)))

\* sub in s
StrContains(sub, s) ==
    \E i \in 1..(Len(s) - Len(sub) + 1) : SubSeq(s, i, i + Len(sub) - 1) = sub

\* s.find(sep) + 1: the first position of sep in s, 0 when there is none
StrFind(s, sep) ==
    IF StrContains(sep, s)
    THEN CHOOSE i \in 1..(Len(s) - Len(sep) + 1) :
            /\ SubSeq(s, i, i + Len(sep) - 1) = sep
            /\ \A j \in 1..(i - 1) : SubSeq(s, j, j + Len(sep) - 1) # sep
    ELSE 0

RECURSIVE StrSplit(_, _)
\* s.split(sep) with a non-empty separator
StrSplit(s, sep) ==
    LET i == StrFind(s, sep)
    IN  IF i = 0
        THEN << s >>
        ELSE << SubSeq(s, 1, i - 1) >> \o StrSplit(SubSeq(s, i + Len(sep), Len(s)), sep)

RECURSIVE StrStrip(_)
\* s.strip()
StrStrip(s) ==
    IF s = "" THEN ""
    ELSE IF Char(s, 1) \in WHITESPACE THEN StrStrip(SubSeq(s, 2, Len(s)))
    ELSE IF Char(s, Len(s)) \in WHITESPACE THEN StrStrip(SubSeq(s, 1, Len(s) - 1))
    ELSE s

\* s[:n]
StrPrefix(s, n) == SubSeq(s, 1, IF Len(s) < n THEN Len(s) ELSE n)

RECURSIVE StrRepeat(_, _)
\* s * n
StrRepeat(s, n) ==
    IF n <= 0 THEN ""
    ELSE LET half == StrRepeat(s, n \div 2)
         IN  half \o half \o (IF n % 2 = 1 THEN s ELSE "")

\* dict.get(key, default) for the "message" key of a parsed body
DictGet(opt, default) == IF opt = None THEN default ELSE opt[1]

-----------------------------------------------------------------------------
(* The environment: what requests.get and response.json() can do.          *)

\* Characters of the enumerated X-OAuth-Scopes header values.
HdrChars == {"a", "b", ",", " "}

RECURSIVE StringsUpTo(_, _)
StringsUpTo(chars, n) ==
    IF n = 0 THEN {""}
    ELSE LET S == StringsUpTo(chars, n - 1)
         IN  S \cup {s \o c : s \in S, c \in chars}

\* X-OAuth-Scopes of a response: absent, or a header value
ScopesHeaders == {None} \cup {Some(s) : s \in StringsUpTo(HdrChars, MaxHdrLen)}

\* response.text[:200] keeps this many characters
TextCut == 200

\* "message" members of a JSON object body
UpstreamMessages ==
    { "", "Bad credentials", "Not Found",
      "API rate limit exceeded for user ID 1.",
      "API Rate Limit Exceeded",
      "You have exceeded a secondary RATE LIMIT",
      "Resource not accessible by integration",
      "Resource not accessible by personal access token",
      "Requires authentication",
      "Must have admin rights to Repository." }

\* response.text of a body that is not JSON: empty, a page of a proxy, a
\* text longer than the cut, a JSON object cut short, and an object written
\* with single quotes
BodyTexts ==
    { "", "<html>502 Bad Gateway</html>", StrRepeat("x", TextCut + 1),
      "{\"message\": ", "{'a': 1}" }

\* An exception: the classes the except clauses test for, and str(e)
Exc(timeout, request_exception, json_decode_error, text) ==
    [timeout |-> timeout, request_exception |-> request_exception,
     json_decode_error |-> json_decode_error, text |-> text]

Returned(v) == [raised |-> FALSE, value |-> v]
Raised(e) == [raised |-> TRUE, exc |-> e]

\* str(e) of json.JSONDecodeError(msg, doc, pos): the message with the line,
\* the column and the index of the character the decoder stopped at
JSONDecodeError(msg, doc, pos) ==
    LET newlines == {i \in 1..pos : Char(doc, i) = "\n"}
        last == IF newlines = {} THEN 0
                ELSE CHOOSE i \in newlines : \A j \in newlines : j <= i
    IN  msg \o ": line " \o ToString(Cardinality(newlines) + 1)
            \o " column " \o ToString(pos - last + 1)
            \o " (char " \o ToString(pos) \o ")"

\* complexjson.loads(s), which response.json() applies to the text of the
\* body: json.loads, the decoder of the standard library (json.decoder,
\* json.scanner and the string scanner of _json, strict). Indices are those
\* of Python, from 0. A
\* step yields the index after what it read, or the message and the index
\* of the error. A document that parses is returned as its source; one
\* that does not raises the JSONDecodeError. The control characters 0x01 to
\* 0x1f a string must not hold are written raw below; a \uXXXX pair of
\* surrogates reads like two escapes.
complexjson_loads(s) ==
    LET len == Len(s)
        ch(i) == IF i < len THEN SubSeq(s, i + 1, i + 1) ELSE ""
        is(i, word) == i + Len(word) <= len /\ SubSeq(s, i + 1, i + Len(word)) = word
        skip(i, chars) ==
            IF i >= len THEN i
            ELSE CHOOSE j \in i..len :
                     ch(j) \notin chars /\ \A k \in i..(j - 1) : ch(k) \in chars
        digit == {"0", "1", "2", "3", "4", "5", "6", "7", "8", "9"}
        hex == digit \cup {"a", "b", "c", "d", "e", "f", "A", "B", "C", "D", "E", "F"}
        control == {"", "", "", "", "", "", "", "", "\t", "\n", "", "\f", "\r", "", "", "",
                    "", "", "", "", "", "", "", "", "", "", "", "", "", "", ""}
        plain == {SubSeq(s, i, i) : i \in 1..len} \ ({"\"", "\\"} \cup control)
        literals == {"null", "true", "false", "NaN", "Infinity", "-Infinity"}
        Ok(end) == [msg |-> "", pos |-> end]
        Err(msg, pos) == [msg |-> msg, pos |-> pos]
        ws(i) == skip(i, {" ", "\t", "\n", "\r"})
        frac(i) == IF ch(i) = "." /\ ch(i + 1) \in digit THEN skip(i + 2, digit) ELSE i
        exponent(i) ==
            LET first == IF ch(i + 1) \in {"+", "-"} THEN i + 2 ELSE i + 1
            IN  IF ch(i) \in {"e", "E"} /\ ch(first) \in digit
                THEN skip(first + 1, digit) ELSE i
        integer(i) ==
            IF ch(i) = "0" THEN i + 1
            ELSE IF ch(i) \in digit THEN skip(i + 1, digit) ELSE i
        number(i) ==
            LET start == IF ch(i) = "-" THEN i + 1 ELSE i
            IN  IF integer(start) = start THEN Err("Expecting value", i)
                ELSE Ok(exponent(frac(integer(start))))
        RECURSIVE scanstring(_, _), scan_once(_), pair(_), element(_)
        escape(begin, next) ==
            IF next + 1 = len THEN Err("Unterminated string starting at", begin)
            ELSE IF ch(next + 1) = "u"
            THEN IF next + 6 >= len \/ \E k \in 2..5 : ch(next + k) \notin hex
                 THEN Err("Invalid \\uXXXX escape", next + 1)
                 ELSE scanstring(begin, next + 6)
            ELSE IF ch(next + 1) \in {"\"", "\\", "/", "b", "f", "n", "r", "t"}
            THEN scanstring(begin, next + 2)
            ELSE Err("Invalid \\escape", next)
        chunk(begin, next) ==
            IF next >= len THEN Err("Unterminated string starting at", begin)
            ELSE IF ch(next) \in control THEN Err("Invalid control character at", next)
            ELSE IF ch(next) = "\"" THEN Ok(next + 1)
            ELSE escape(begin, next)
        scanstring(begin, end) == chunk(begin, skip(end, plain))
        after_value(val, close, again(_)) ==
            IF val.msg # "" THEN val
            ELSE IF ch(ws(val.pos)) = close THEN Ok(ws(val.pos) + 1)
            ELSE IF ch(ws(val.pos)) # "," THEN Err("Expecting ',' delimiter", ws(val.pos))
            ELSE again(ws(ws(val.pos) + 1))
        after_key(key) ==
            IF key.msg # "" THEN key
            ELSE IF ch(ws(key.pos)) # ":" THEN Err("Expecting ':' delimiter", ws(key.pos))
            ELSE after_value(scan_once(ws(ws(key.pos) + 1)), "}", pair)
        pair(i) ==
            IF ch(i) # "\""
            THEN Err("Expecting property name enclosed in double quotes", i)
            ELSE after_key(scanstring(i, i + 1))
        element(i) == after_value(scan_once(i), "]", element)
        JSONObject(i) == IF ch(ws(i)) = "}" THEN Ok(ws(i) + 1) ELSE pair(ws(i))
        JSONArray(i) == IF ch(ws(i)) = "]" THEN Ok(ws(i) + 1) ELSE element(ws(i))
        scan_once(i) ==
            IF ch(i) = "\"" THEN scanstring(i, i + 1)
            ELSE IF ch(i) = "{" THEN JSONObject(i + 1)
            ELSE IF ch(i) = "[" THEN JSONArray(i + 1)
            ELSE IF \E w \in literals : is(i, w)
            THEN Ok(i + Len(CHOOSE w \in literals : is(i, w)))
            ELSE number(i)
        decode(obj) ==
            IF obj.msg # "" THEN obj
            ELSE IF ws(obj.pos) # len THEN Err("Extra data", ws(obj.pos))
            ELSE obj
        raised(r) ==
            IF r.msg = "" THEN Returned(s)
            ELSE Raised(Exc(FALSE, FALSE, TRUE, JSONDecodeError(r.msg, s, r.pos)))
    IN  raised(decode(scan_once(ws(0))))

\* A response of the server. body is "object" (a JSON object, with or
\* without a "message" member), "non_object" (any other JSON value, text
\* its JSON source, one of NonObjectTexts) or "invalid" (not JSON, text
\* the body). The exception response.json() raises for an invalid
\* body is a json.JSONDecodeError, a requests RequestException, both or
\* neither, with the installed requests and simplejson; its str(e) is what
\* the decoder says of the text.
Response(status, header, body, message, text, is_json, is_request) ==
    [kind |-> "response", status_code |-> status, scopes_header |-> header,
     body |-> body, body_message |-> message, text |-> text,
     exc |-> Exc(FALSE, is_request, is_json,
                 IF complexjson_loads(text).raised
                 THEN complexjson_loads(text).exc.text ELSE "")]

\* requests.get raised instead of returning a response
Failure(kind, text) ==
    [kind |-> kind, status_code |-> 0, scopes_header |-> None,
     body |-> "invalid", body_message |-> None, text |-> "",
     exc |-> Exc(kind = "timeout", kind # "exception", FALSE, text)]

\* JSON values that are no object: the JSON source, type(value).__name__
\* after json parsing, whether `in` applies to the value and whether
\* "message" in value holds
NonObjectValues ==
    { [text |-> "[]", type_name |-> "list", iterable |-> TRUE, has_message |-> FALSE],
      [text |-> "[\"message\"]", type_name |-> "list", iterable |-> TRUE, has_message |-> TRUE],
      [text |-> "\"message\"", type_name |-> "str", iterable |-> TRUE, has_message |-> TRUE],
      [text |-> "null", type_name |-> "NoneType", iterable |-> FALSE, has_message |-> FALSE],
      [text |-> "5", type_name |-> "int", iterable |-> FALSE, has_message |-> FALSE],
      [text |-> "true", type_name |-> "bool", iterable |-> FALSE, has_message |-> FALSE] }

NonObjectTexts == {v.text : v \in NonObjectValues}

\* the value a non-object JSON text parses to
JsonValue(text) == CHOOSE v \in NonObjectValues : v.text = text

NonObjectBodies(texts) == {<<"non_object", None, t, FALSE, FALSE>> : t \in texts}

JsonBodies(messages) ==
    {<<"object", m, "", FALSE, FALSE>> : m \in {None} \cup {Some(x) : x \in messages}}
        \cup NonObjectBodies({"[]", "null"})

InvalidBodies(texts) ==
    {<<"invalid", None, t, j, r>> : t \in texts, j \in BOOLEAN, r \in BOOLEAN}

OtherStatuses == {204, 401, 403, 404, 500}

Responses ==
    {Response(200, hd, b[1], b[2], b[3], b[4], b[5]) :
        hd \in ScopesHeaders,
        b \in JsonBodies({}) \cup InvalidBodies({"<html>502 Bad Gateway</html>"})}
    \cup
    {Response(st, None, b[1], b[2], b[3], b[4], b[5]) :
        st \in OtherStatuses,
        b \in JsonBodies(UpstreamMessages) \cup InvalidBodies(BodyTexts)}

Timeouts == {Failure("timeout", "Read timed out.")}

RequestFailures ==
    { Failure("request_exception", "Max retries exceeded with url: /user"),
      Failure("exception", "unexpected keyword argument") }

\* every outcome of requests.get(api_url, headers=headers, ...). Without a
\* timeout argument (verify.py) a timeout of the operating system's socket
\* still surfaces as requests.exceptions.Timeout.
HttpOutcomes == Responses \cup Timeouts \cup RequestFailures

\* requests.get
requests_get(h) ==
    IF h.kind = "response" THEN Returned(h) ELSE Raised(h.exc)

\* response.json()
response_json(h) ==
    IF h.body = "invalid" THEN Raised(h.exc)
    ELSE IF h.body = "object"
    THEN Returned([is_dict |-> TRUE, message |-> h.body_message, type_name |-> "dict",
                   iterable |-> TRUE, has_message |-> h.body_message # None])
    ELSE Returned([is_dict |-> FALSE, message |-> None,
                   type_name |-> JsonValue(h.text).type_name,
                   iterable |-> JsonValue(h.text).iterable,
                   has_message |-> JsonValue(h.text).has_message])

\* response_data.get('message', default): an AttributeError naming the
\* value's type when the body is JSON but not an object
response_data_get(response_data, default) ==
    IF response_data.is_dict
    THEN Returned(DictGet(response_data.message, default))
    ELSE Raised(Exc(FALSE, FALSE, FALSE,
                    "'" \o response_data.type_name \o "' object has no attribute 'get'"))

\* json.dumps / json.loads of a result: bool, int, str and list of str
\* survive the round trip unchanged
json_dumps(result) == [json |-> result]
json_loads(text) == text.json

Result(valid, scopes, message, status_code) ==
    [valid |-> valid, scopes |-> scopes, message |-> message, status_code |-> status_code]

-----------------------------------------------------------------------------
(* tools/github_verifier.py                                                *)

\* scopes of a 200 response: split on ', ', then trimmed, empty ones dropped
ApiScopes(h) ==
    LET scopes == StrSplit(DictGet(h.scopes_header, ""), ", ")
    IN  SelectSeq([i \in 1..Len(scopes) |-> StrStrip(scopes[i])], LAMBDA x : x # "")

\* the inner try: response.json(), or the fallback when the body is not JSON
ApiResponseData(h) ==
    LET parsed == response_json(h)
    IN  IF ~parsed.raised THEN parsed
        ELSE IF parsed.exc.json_decode_error
        THEN Returned([is_dict |-> TRUE,
                       message |-> Some(IF h.text # ""
                                        THEN StrPrefix(h.text, TextCut) \o "..."
                                        ELSE "No JSON response body"),
                       type_name |-> "dict", iterable |-> TRUE, has_message |-> TRUE])
        ELSE parsed

\* a mutant: the message is matched without .lower()
ApiForbiddenMessageCaseSensitive(message) ==
    IF StrContains("rate limit", message)
    THEN "Rate limit exceeded or forbidden: " \o message
    ELSE IF \/ StrContains("resource not accessible by integration", message)
            \/ StrContains("requires authentication", message)
    THEN "Token forbidden or insufficient permissions: " \o message
    ELSE message

\* the 403 branch's message
ApiForbiddenMessage(message) ==
    IF StrContains("rate limit", StrLower(message))
    THEN "Rate limit exceeded or forbidden: " \o message
    ELSE IF \/ StrContains("resource not accessible by integration", StrLower(message))
            \/ StrContains("requires authentication", StrLower(message))
    THEN "Token forbidden or insufficient permissions: " \o message
    ELSE message

\* the if/elif chain on response.status_code
ApiClassify(h, response_data) ==
    IF h.status_code = 200
    THEN Returned(Result(TRUE, ApiScopes(h), "Token is valid.", h.status_code))
    ELSE IF h.status_code = 401
    THEN LET m == response_data_get(response_data, "Bad credentials")
         IN  IF m.raised THEN m
             ELSE Returned(Result(FALSE, << >>,
                                  "Token is invalid or expired: " \o m.value, h.status_code))
    ELSE IF h.status_code = 403
    THEN LET m == response_data_get(response_data, "Access Forbidden.")
         IN  IF m.raised THEN m
             ELSE Returned(Result(FALSE, << >>, ApiForbiddenMessage(m.value), h.status_code))
    ELSE LET m == response_data_get(response_data, "No message")
         IN  IF m.raised THEN m
             ELSE Returned(Result(FALSE, << >>,
                                  "Unexpected API response (Status: "
                                      \o ToString(h.status_code) \o "): " \o m.value,
                                  h.status_code))

\* the body of the outer try
ApiTry(h) ==
    LET response == requests_get(h)
    IN  IF response.raised THEN response
        ELSE LET response_data == ApiResponseData(h)
             IN  IF response_data.raised THEN response_data
                 ELSE ApiClassify(h, response_data.value)

\* the except clauses of the outer try, in order
ApiExcept(e) ==
    IF e.timeout
    THEN Returned(Result(FALSE, << >>,
                         "Request timed out when connecting to GitHub API.", -1))
    ELSE IF e.request_exception
    THEN Returned(Result(FALSE, << >>, "Network or API request error: " \o e.text, -2))
    ELSE Returned(Result(FALSE, << >>,
                         "An unexpected error occurred during tool execution: " \o e.text, -99))

\* verify_github_token_api(token), with h what the request does
verify_github_token_api(token, h) ==
    LET body == ApiTry(h)
        result == IF body.raised THEN ApiExcept(body.exc) ELSE body
    IN  IF result.raised THEN result ELSE Returned(json_dumps(result.value))

-----------------------------------------------------------------------------
(* verify.py                                                               *)

\* scopes of a 200 response: split on ', ', empty ones dropped
ToolScopes(h) ==
    SelectSeq(StrSplit(DictGet(h.scopes_header, ""), ", "), LAMBDA x : x # "")

\* the if/elif chain on response.status_code
ToolClassify(h, response_data) ==
    IF h.status_code = 200
    THEN Returned(Result(TRUE, ToolScopes(h), "Token is valid.", h.status_code))
    ELSE IF h.status_code = 401
    THEN LET m == response_data_get(response_data, "Unknown error")
         IN  IF m.raised THEN m
             ELSE Returned(Result(FALSE, << >>,
                                  "Token is invalid or expired: " \o m.value, h.status_code))
    ELSE IF h.status_code = 403
    THEN LET m == response_data_get(response_data, "Unknown error")
         IN  IF m.raised THEN m
             ELSE Returned(Result(FALSE, << >>,
                                  "Token access forbidden (e.g., rate limited or token permissions): "
                                      \o m.value,
                                  h.status_code))
    ELSE LET m == response_data_get(response_data, "No message")
         IN  IF m.raised THEN m
             ELSE Returned(Result(FALSE, << >>,
                                  "Unexpected API response (Status: "
                                      \o ToString(h.status_code) \o "): " \o m.value,
                                  h.status_code))

\* the body of the try
ToolTry(h) ==
    LET response == requests_get(h)
    IN  IF response.raised THEN response
        ELSE LET response_data == response_json(h)
             IN  IF response_data.raised THEN response_data
                 ELSE ToolClassify(h, response_data.value)

\* the except clauses, in order: RequestException, json.JSONDecodeError, Exception
ToolExcept(e) ==
    IF e.request_exception
    THEN Returned(Result(FALSE, << >>, "Network or API request error: " \o e.text, -1))
    ELSE IF e.json_decode_error
    THEN Returned(Result(FALSE, << >>,
                         "JSON Decode Error: Unexpected response format from GitHub API.", -3))
    ELSE Returned(Result(FALSE, << >>, "An unexpected error occurred: " \o e.text, -4))

\* verify_github_token_tool(token), with h what the request does
verify_github_token_tool(token, h) ==
    LET body == ToolTry(h)
        result == IF body.raised THEN ToolExcept(body.exc) ELSE body
    IN  IF result.raised THEN result ELSE Returned(json_dumps(result.value))

-----------------------------------------------------------------------------
(* The LLM: chain.invoke(...).content, or an exception.                    *)

LlmOutcomes ==
    { Returned(""),
      Returned("Generate a new token with the required scopes."),
      Raised(Exc(FALSE, FALSE, FALSE, "Connection error.")) }

-----------------------------------------------------------------------------
(* The prompt of an LLM node: the f-string of the node becomes the text of *)
(* a template of langchain_core, whose braces are read a second time.      *)

\* body(value), the value computed once: an assignment followed by the
\* statements that use the variable
With(value, body(_)) == CHOOSE result \in {body(v) : v \in {value}} : TRUE

\* the ASCII characters repr writes as \xhh unless it has a short escape for
\* them, at their code points: those below the space, and DEL
CONTROL == [i \in 1..127 |-> IF i < 32 THEN Char("\t\n\f\r", i) ELSE IF i = 127 THEN "" ELSE ""]

UNPRINTABLE == {CONTROL[i] : i \in 1..127} \ {""}

\* repr(s) of a str: the quote Python picks and its escapes
repr(s) ==
    LET hex == "0123456789abcdef"
        code(c) == CHOOSE i \in 1..127 : c = CONTROL[i]
        escape(c, quote) ==
            IF c = "\\" THEN "\\\\"
            ELSE IF c = quote THEN "\\" \o c
            ELSE IF c = "\t" THEN "\\t"
            ELSE IF c = "\n" THEN "\\n"
            ELSE IF c = "\r" THEN "\\r"
            ELSE IF c \in UNPRINTABLE
            THEN "\\x" \o Char(hex, (code(c) \div 16) + 1) \o Char(hex, (code(c) % 16) + 1)
            ELSE c
        RECURSIVE escaped(_, _, _, _)
        escaped(text, quote, i, j) ==
            IF i > j THEN ""
            ELSE IF i = j THEN escape(Char(text, i), quote)
            ELSE escaped(text, quote, i, (i + j) \div 2)
                     \o escaped(text, quote, (i + j) \div 2 + 1, j)
        quoted(text) ==
            LET in(quote) == quote \o escaped(text, quote, 1, Len(text)) \o quote
            IN  With(IF StrContains("'", text) /\ ~StrContains("\"", text) THEN "\"" ELSE "'",
                     in)
    IN  With(s, quoted)

\* repr(xs) of a list of str (open "[", close "]") or of a set of str in
\* the order given (open "{", close "}")
repr_items(open, xs, close) ==
    LET RECURSIVE joined(_)
        joined(i) ==
            IF i > Len(xs) THEN ""
            ELSE (IF i > 1 THEN ", " ELSE "") \o repr(xs[i]) \o joined(i + 1)
    IN  open \o joined(1) \o close

\* string.Formatter().parse(format_string): the replacement fields of a
\* format string, in order, or the ValueError of the parser (MarkupIterator
\* and parse_field of CPython's unicode_format.h). Indices are those of
\* Python, from 0. "{{" and "}}" are text; a field name ends at "}", ":" or
\* "!", and "[" in it reads on to the next "]"; a format spec ends at the
\* "}" that closes its own braces.
Formatter_parse(format_string) ==
    LET parse(s) ==
          LET len == Len(s)
              ch(i) == IF i < len THEN SubSeq(s, i + 1, i + 1) ELSE ""
              find(i, chars) ==
                  IF i >= len THEN len
                  ELSE CHOOSE j \in i..len :
                           (j = len \/ ch(j) \in chars) /\ \A k \in i..(j - 1) : ch(k) \notin chars
              Err(msg) == [error |-> msg, field |-> << >>, next |-> len]
              Field(name, conversion, spec, next) ==
                  [error |-> "",
                   field |-> << [field_name |-> name, conversion |-> conversion,
                                 format_spec |-> spec] >>,
                   next |-> next]
              RECURSIVE name_end(_)
              name_end(i) ==
                  LET j == find(i, {"{", "[", "}", ":", "!"})
                  IN  IF j < len /\ ch(j) = "["
                      THEN (IF find(j + 1, {"]"}) >= len THEN len
                            ELSE name_end(find(j + 1, {"]"}) + 1))
                      ELSE j
              RECURSIVE spec_end(_, _)
              spec_end(i, count) ==
                  LET j == find(i, {"{", "}"})
                  IN  IF j >= len THEN len
                      ELSE IF ch(j) = "{" THEN spec_end(j + 1, count + 1)
                      ELSE IF count = 1 THEN j
                      ELSE spec_end(j + 1, count - 1)
              format_spec(name, conversion, start) ==
                  LET end == spec_end(start, 1)
                  IN  IF end >= len THEN Err("unmatched '{' in format spec")
                      ELSE Field(name, conversion, SubSeq(s, start + 1, end), end + 1)
              parse_field(start) ==
                  LET end == name_end(start)
                      name == SubSeq(s, start + 1, end)
                  IN  IF end >= len THEN Err("expected '}' before end of string")
                      ELSE IF ch(end) = "{" THEN Err("unexpected '{' in field name")
                      ELSE IF ch(end) = "}" THEN Field(name, None, "", end + 1)
                      ELSE IF ch(end) = ":" THEN format_spec(name, None, end + 1)
                      ELSE IF end + 1 >= len
                      THEN Err("end of string while looking for conversion specifier")
                      ELSE IF end + 2 >= len THEN Err("unmatched '{' in format spec")
                      ELSE IF ch(end + 2) = "}" THEN Field(name, Some(ch(end + 1)), "", end + 3)
                      ELSE IF ch(end + 2) # ":" THEN Err("expected ':' after conversion specifier")
                      ELSE format_spec(name, Some(ch(end + 1)), end + 3)
              RECURSIVE markup(_, _)
              markup(i, fields) ==
                  LET j == find(i, {"{", "}"})
                      at_end == j + 1 >= len
                      parsed == parse_field(j + 1)
                  IN  IF j >= len THEN Returned(fields)
                      ELSE IF ch(j) = "}" /\ (at_end \/ ch(j + 1) # "}")
                      THEN Raised(Exc(FALSE, FALSE, FALSE, "Single '}' encountered in format string"))
                      ELSE IF at_end
                      THEN Raised(Exc(FALSE, FALSE, FALSE, "Single '{' encountered in format string"))
                      ELSE IF ch(j + 1) = ch(j) THEN markup(j + 2, fields)
                      ELSE IF parsed.error # "" THEN Raised(Exc(FALSE, FALSE, FALSE, parsed.error))
                      ELSE markup(parsed.next, fields \o parsed.field)
          IN  markup(0, << >>)
    IN  With(format_string, parse)

\* f"{value}" of what verification_result.get(key) returned: None, the
\* bool of "valid", the str of "message", the list of str of "scopes" or
\* the int of "status_code"
fstring_value(key, value) ==
    IF value = None THEN "None"
    ELSE IF key = "valid" THEN (IF value[1] THEN "True" ELSE "False")
    ELSE IF key = "message" THEN value[1]
    ELSE IF key = "scopes" THEN repr_items("[", value[1], "]")
    ELSE ToString(value[1])

\* ChatPromptTemplate.from_messages([("system", ...), ("human", human)]):
\* every text is parsed as a format string when the template is built, and
\* the field names are the input variables, sorted. The system texts of the
\* four nodes hold no brace. The characters are ASCII without the backquote.
ChatPromptTemplate_from_messages(human) ==
    LET ascii == "\t\n\f\r !\"#$%&'()*+,-./0123456789:;<=>?@ABCDEFGHIJKLMNOPQRSTUVWXYZ[\\]^_abcdefghijklmnopqrstuvwxyz{|}~"
        ord(c) == CHOOSE i \in 1..Len(ascii) : Char(ascii, i) = c
        less(a, b) ==
            \E i \in 1..Len(b) :
                /\ i - 1 <= Len(a)
                /\ SubSeq(a, 1, i - 1) = SubSeq(b, 1, i - 1)
                /\ (i > Len(a) \/ ord(Char(a, i)) < ord(Char(b, i)))
        RECURSIVE sorted(_)
        sorted(names) ==
            IF names = {} THEN << >>
            ELSE LET first == CHOOSE x \in names : \A y \in names \ {x} : less(x, y)
                 IN  << first >> \o sorted(names \ {first})
        template(parsed) ==
            IF parsed.raised THEN parsed
            ELSE Returned([fields |-> parsed.value,
                           input_variables |->
                               sorted({parsed.value[i].field_name :
                                           i \in DOMAIN parsed.value})])
    IN  With(Formatter_parse(human), template)

\* (prompt_template | llm).invoke({"input": ""}), with llm what the LLM call
\* does: the outcome, and whether the LLM was called. The prompt checks its
\* input first and raises a KeyError naming the variables other than
\* "input" (str(e) is the repr of its text; a set of two or more names is
\* printed here in sorted order, Python prints it in the order of its hash
\* seed); formatting then fills every {input} with "" and rejects a
\* conversion other than !r, !s and !a. A format spec on an {input} field is
\* not applied.
chain_invoke(prompt_template, llm) ==
    LET expected == prompt_template.input_variables
        missing == SelectSeq(expected, LAMBDA v : v # "input")
        unknown == SelectSeq(prompt_template.fields,
                             LAMBDA f : f.conversion \notin {None, Some("r"), Some("s"), Some("a")})
        text == "Input to ChatPromptTemplate is missing variables "
                    \o repr_items("{", missing, "}") \o ".  Expected: "
                    \o repr_items("[", expected, "]") \o " Received: ['input']"
                    \o "\nNote: if you intended {" \o missing[1]
                    \o "} to be part of the string and not a variable, please escape it"
                    \o " with double curly braces like: '{{" \o missing[1] \o "}}'."
                    \o "\nFor troubleshooting, visit: "
                    \o "https://python.langchain.com/docs/troubleshooting/errors/INVALID_PROMPT_INPUT "
    IN  IF missing # << >>
        THEN [outcome |-> Raised(Exc(FALSE, FALSE, FALSE, repr(text))), called |-> FALSE]
        ELSE IF unknown # << >>
        THEN [outcome |-> Raised(Exc(FALSE, FALSE, FALSE,
                                     "Unknown conversion specifier " \o unknown[1].conversion[1])),
              called |-> FALSE]
        ELSE [outcome |-> llm, called |-> TRUE]

-----------------------------------------------------------------------------
(* workflow_state.py, graph_nodes.py                                       *)

\* tokens passed to run: missing, empty, and a token
Tokens == {None, Some(""), Some("ghp_0123456789")}

GithubTokenVerificationState(token, result, analysis, remediation) ==
    [token |-> token, verification_result |-> result,
     analysis_message |-> analysis, remediation_suggestions |-> remediation]

\* not token
TokenMissing(token) == token = None \/ token = Some("")

\* dict.get(key) on a verification result
ResultGet(result, key) == IF key \in DOMAIN result THEN Some(result[key]) ELSE None

\* what a node did: the state it returns and the external calls it made
Done(st, made) == Returned([state |-> st, calls |-> made])

\* call_github_verifier_node(state), with h what the request does
call_github_verifier_node(st, h) ==
    IF TokenMissing(st.token)
    THEN Done([st EXCEPT !.verification_result =
                    Some([valid |-> FALSE, message |-> "No token provided.",
                          status_code |-> 0])],
              << >>)
    ELSE LET result_json == verify_github_token_api(st.token[1], h)
         IN  IF ~result_json.raised
             THEN Done([st EXCEPT !.verification_result =
                             Some(json_loads(result_json.value))],
                       << "github_api" >>)
             ELSE Done([st EXCEPT !.verification_result =
                             Some(Result(FALSE, << >>,
                                         "Error during API call: " \o result_json.exc.text,
                                         -100))],
                       << "github_api" >>)

\* a mutant: the node also resets remediation_suggestions
analyze_result_node_two_fields(st, llm) ==
    IF st.verification_result = None
    THEN Raised(Exc(FALSE, FALSE, FALSE, "'NoneType' object has no attribute 'get'"))
    ELSE LET get(key) == fstring_value(key, ResultGet(st.verification_result[1], key))
             invoked(analysis) ==
                 LET made == IF analysis.called THEN << "llm_analyze" >> ELSE << >>
                 IN  Done([st EXCEPT !.analysis_message =
                           Some(IF ~analysis.outcome.raised THEN analysis.outcome.value
                                ELSE "Error during analysis: " \o analysis.outcome.exc.text),
                                !.remediation_suggestions = Some("")],
                      made)
             built(prompt_template) ==
                 IF prompt_template.raised THEN Raised(prompt_template.exc)
                 ELSE With(chain_invoke(prompt_template.value, llm), invoked)
         IN  With(ChatPromptTemplate_from_messages(
                      "GitHub Token Verification Result:\nValid: " \o get("valid")
                      \o "\nMessage: " \o get("message") \o "\nScopes: " \o get("scopes")
                      \o "\nStatus Code: " \o get("status_code")),
                  built)

\* analyze_result_node(state), with llm what the LLM call does. The prompt
\* is built before the try: a message whose braces are no format string
\* raises ValueError out of the node. chain.invoke is inside the try: its
\* exception, of the prompt or of the LLM, is stored in analysis_message.
analyze_result_node(st, llm) ==
    IF st.verification_result = None
    THEN Raised(Exc(FALSE, FALSE, FALSE, "'NoneType' object has no attribute 'get'"))
    ELSE LET get(key) == fstring_value(key, ResultGet(st.verification_result[1], key))
             invoked(analysis) ==
                 LET made == IF analysis.called THEN << "llm_analyze" >> ELSE << >>
                 IN  Done([st EXCEPT !.analysis_message =
                           Some(IF ~analysis.outcome.raised THEN analysis.outcome.value
                                ELSE "Error during analysis: " \o analysis.outcome.exc.text)],
                      made)
             built(prompt_template) ==
                 IF prompt_template.raised THEN Raised(prompt_template.exc)
                 ELSE With(chain_invoke(prompt_template.value, llm), invoked)
         IN  With(ChatPromptTemplate_from_messages(
                      "GitHub Token Verification Result:\nValid: " \o get("valid")
                      \o "\nMessage: " \o get("message") \o "\nScopes: " \o get("scopes")
                      \o "\nStatus Code: " \o get("status_code")),
                  built)

\* a mutant: no short-circuit for a valid result
suggest_remediation_node_always_llm(st, llm) ==
    IF st.verification_result = None
    THEN Raised(Exc(FALSE, FALSE, FALSE, "'NoneType' object has no attribute 'get'"))
    ELSE LET get(key) == fstring_value(key, ResultGet(st.verification_result[1], key))
             invoked(suggestions) ==
                 LET made == IF suggestions.called THEN << "llm_remediate" >> ELSE << >>
                 IN  Done([st EXCEPT !.remediation_suggestions =
                           Some(IF ~suggestions.outcome.raised THEN suggestions.outcome.value
                                ELSE "Error generating suggestions: " \o suggestions.outcome.exc.text)],
                      made)
             built(prompt_template) ==
                 IF prompt_template.raised THEN Raised(prompt_template.exc)
                 ELSE With(chain_invoke(prompt_template.value, llm), invoked)
         IN  With(ChatPromptTemplate_from_messages(
                      "GitHub Token Invalid. Error Message: '" \o get("message")
                      \o "'. Status Code: " \o get("status_code") \o ". "
                      \o "What are the best steps to fix this token issue?"),
                  built)

\* suggest_remediation_node(state), with llm what the LLM call does; the
\* prompt is built before the try and chain.invoke is inside it, as in
\* analyze_result_node
suggest_remediation_node(st, llm) ==
    IF st.verification_result = None
    THEN Raised(Exc(FALSE, FALSE, FALSE, "'NoneType' object has no attribute 'get'"))
    ELSE IF ResultGet(st.verification_result[1], "valid") = Some(TRUE)
    THEN Done([st EXCEPT !.remediation_suggestions =
                    Some("Token is valid. No remediation needed.")],
              << >>)
    ELSE LET get(key) == fstring_value(key, ResultGet(st.verification_result[1], key))
             invoked(suggestions) ==
                 LET made == IF suggestions.called THEN << "llm_remediate" >> ELSE << >>
                 IN  Done([st EXCEPT !.remediation_suggestions =
                           Some(IF ~suggestions.outcome.raised THEN suggestions.outcome.value
                                ELSE "Error generating suggestions: " \o suggestions.outcome.exc.text)],
                      made)
             built(prompt_template) ==
                 IF prompt_template.raised THEN Raised(prompt_template.exc)
                 ELSE With(chain_invoke(prompt_template.value, llm), invoked)
         IN  With(ChatPromptTemplate_from_messages(
                      "GitHub Token Invalid. Error Message: '" \o get("message")
                      \o "'. Status Code: " \o get("status_code") \o ". "
                      \o "What are the best steps to fix this token issue?"),
                  built)

-----------------------------------------------------------------------------
(* app.py: the two LLM nodes. Its state object has the same four fields;   *)
(* the {} the endpoint puts in verification_result is modelled as None.    *)

\* a node raised after it had made the external calls `made`
Aborted(e, made) == [raised |-> TRUE, exc |-> e, calls |-> made]

\* state.verification_result.get(key)
AppResultGet(st, key) ==
    IF st.verification_result = None THEN None
    ELSE ResultGet(st.verification_result[1], key)

\* analyze_verification_result(state), with llm what the LLM call does:
\* nothing is caught, an exception of the prompt or of the LLM leaves the
\* node
analyze_verification_result(st, llm) ==
    LET get(key) == fstring_value(key, AppResultGet(st, key))
        invoked(analysis) ==
            LET made == IF analysis.called THEN << "llm_analyze" >> ELSE << >>
            IN  IF ~analysis.outcome.raised
                THEN Done([st EXCEPT !.analysis_message = Some(analysis.outcome.value)], made)
                ELSE Aborted(analysis.outcome.exc, made)
        built(prompt_template) ==
            IF prompt_template.raised THEN Aborted(prompt_template.exc, << >>)
            ELSE With(chain_invoke(prompt_template.value, llm), invoked)
    IN  With(ChatPromptTemplate_from_messages(
                 "Verification Result:\nValid: " \o get("valid") \o "\nMessage: "
                 \o get("message") \o "\nScopes: " \o get("scopes")
                 \o "\nStatus Code: " \o get("status_code")),
             built)

\* generate_remediation_suggestions(state), with llm what the LLM call does
generate_remediation_suggestions(st, llm) ==
    IF AppResultGet(st, "valid") = Some(TRUE)
    THEN Done([st EXCEPT !.remediation_suggestions =
                    Some("Token is valid. No remediation needed.")],
              << >>)
    ELSE LET get(key) == fstring_value(key, AppResultGet(st, key))
             invoked(suggestions) ==
                 LET made == IF suggestions.called THEN << "llm_remediate" >> ELSE << >>
                 IN  IF ~suggestions.outcome.raised
                     THEN Done([st EXCEPT !.remediation_suggestions = Some(suggestions.outcome.value)], made)
                     ELSE Aborted(suggestions.outcome.exc, made)
             built(prompt_template) ==
                 IF prompt_template.raised THEN Aborted(prompt_template.exc, << >>)
                 ELSE With(chain_invoke(prompt_template.value, llm), invoked)
         IN  With(ChatPromptTemplate_from_messages(
                      "Error Message: " \o get("message") \o "\nStatus Code: "
                      \o get("status_code")
                      \o "\nWhat steps should I take to fix this GitHub token issue?"),
                  built)

-----------------------------------------------------------------------------
(* main_workflow.py                                                        *)

END == "END"

\* a mutant: the graph is entered at analyze_result
entry_point_analyze == "analyze_result"

\* set_entry_point
entry_point == "verify_token"

\* a mutant: suggest_remediation loops back to analyze_result
edges_loop_back == [verify_token |-> "analyze_result", suggest_remediation |-> "analyze_result"]

\* add_edge
edges == [verify_token |-> "analyze_result", suggest_remediation |-> END]

\* a mutant: both branches of the conditional edge lead to END
path_map_never_remediate == [remediate |-> END, end |-> END]

\* the path map of add_conditional_edges("analyze_result", ...)
path_map == [remediate |-> "suggest_remediation", end |-> END]

\* a mutant: the test of valid is inverted
decide_next_step_inverted(st) ==
    IF st.verification_result = None
    THEN Raised(Exc(FALSE, FALSE, FALSE, "'NoneType' object has no attribute 'get'"))
    ELSE IF ResultGet(st.verification_result[1], "valid") = Some(TRUE)
    THEN Returned("remediate")
    ELSE Returned("end")

\* _decide_next_step(state): state.get("verification_result", {}) is None
\* when the key holds None, and None.get raises
decide_next_step(st) ==
    IF st.verification_result = None
    THEN Raised(Exc(FALSE, FALSE, FALSE, "'NoneType' object has no attribute 'get'"))
    ELSE IF ResultGet(st.verification_result[1], "valid") = Some(TRUE)
    THEN Returned("end")
    ELSE Returned("remediate")

\* the node that follows `node` in the compiled graph; an exception of the
\* conditional edge leaves invoke like an exception of a node
next_node(node, st) ==
    IF node = "analyze_result"
    THEN LET decision == decide_next_step(st)
         IN  IF decision.raised THEN "raised" ELSE path_map[decision.value]
    ELSE edges[node]

\* the external calls a node made, whether it returned or raised
MadeCalls(r) ==
    IF ~r.raised THEN r.value.calls
    ELSE IF "calls" \in DOMAIN r THEN r.calls ELSE << >>

\* the LLM outcomes met so far, after a node that drew outcome llm
LlmLogged(r, llm) == IF MadeCalls(r) # << >> THEN Append(llm_log, llm) ELSE llm_log

\* one step of compiled_graph.invoke: the node ran, the graph moves on; an
\* exception of the node ends the run
Step(node, r) ==
    /\ executed' = Append(executed, node)
    /\ IF r.raised
       THEN /\ pc' = "raised"
            /\ UNCHANGED <<state, calls>>
       ELSE /\ state' = Some(r.value.state)
            /\ calls' = calls \o r.value.calls
            /\ pc' = next_node(node, r.value.state)

\* no run of the workflow and no call of verify.py has started
WorkflowInit ==
    /\ pc = "idle"
    /\ state = None
    /\ executed = << >>
    /\ calls = << >>
    /\ http = None
    /\ final_state = None
    /\ tool_http = None
    /\ tool_output = None
    /\ llm_log = << >>

\* none of the other programs has started
ScriptsInit ==
    /\ verifier = None
    /\ runs = None
    /\ pager = None
    /\ dependabot = None
    /\ team_csv = None
    /\ endpoint = None

Init == WorkflowInit /\ ScriptsInit

\* run(token), up to compiled_graph.invoke: the initial state is built and
\* the graph entered. Drawing the diagram is wrapped in try/except and
\* touches nothing of the state.
Run(token) ==
    /\ pc = "idle"
    /\ tool_output = None
    /\ state' = Some(GithubTokenVerificationState(token, None, None, None))
    /\ pc' = entry_point
    /\ executed' = << >>
    /\ calls' = << >>
    /\ http' = None
    /\ final_state' = None
    /\ llm_log' = << >>
    /\ UNCHANGED <<tool_http, tool_output>>
    /\ UNCHANGED script_vars

\* the verify node; requests.get is called exactly when the node's token
\* guard passes
VerifyToken ==
    /\ pc = "verify_token"
    /\ \E h \in HttpOutcomes :
          /\ http' = IF TokenMissing(state[1].token) THEN None ELSE Some(h)
          /\ Step("verify_token", call_github_verifier_node(state[1], h))
    /\ UNCHANGED <<final_state, tool_http, tool_output, llm_log>>
    /\ UNCHANGED script_vars

AnalyzeResult ==
    /\ pc = "analyze_result"
    /\ \E llm \in LlmOutcomes :
          LET r == analyze_result_node(state[1], llm)
          IN  Step("analyze_result", r) /\ llm_log' = LlmLogged(r, llm)
    /\ UNCHANGED <<http, final_state, tool_http, tool_output>>
    /\ UNCHANGED script_vars

SuggestRemediation ==
    /\ pc = "suggest_remediation"
    /\ \E llm \in LlmOutcomes :
          LET r == suggest_remediation_node(state[1], llm)
          IN  Step("suggest_remediation", r) /\ llm_log' = LlmLogged(r, llm)
    /\ UNCHANGED <<http, final_state, tool_http, tool_output>>
    /\ UNCHANGED script_vars

\* compiled_graph.invoke returns; run returns final_state
Return ==
    /\ pc = END
    /\ final_state' = state
    /\ pc' = "idle"
    /\ UNCHANGED <<state, executed, calls, http, tool_http, tool_output, llm_log>>
    /\ UNCHANGED script_vars

\* verify.py run as a script: verify_github_token_tool.run(token_to_test)
VerifyMain ==
    /\ pc = "idle"
    /\ state = None
    /\ tool_output = None
    /\ \E h \in HttpOutcomes :
          /\ tool_http' = Some(h)
          /\ tool_output' = Some(verify_github_token_tool("github_pat_11AOJBFYA0", h))
    /\ pc' = "exit"
    /\ UNCHANGED <<state, executed, calls, http, final_state, llm_log>>
    /\ UNCHANGED script_vars

Next ==
    \/ \E token \in Tokens : Run(token)
    \/ VerifyToken
    \/ AnalyzeResult
    \/ SuggestRemediation
    \/ Return
    \/ VerifyMain

Spec == Init /\ [][Next]_vars

\* compiled_graph.invoke runs the nodes one after the other in the calling
\* thread and returns; each external call returns or fails
GraphStep == VerifyToken \/ AnalyzeResult \/ SuggestRemediation \/ Return

FairSpec == Spec /\ WF_vars(GraphStep)

-----------------------------------------------------------------------------
(* The LLM nodes called on their own: each of the four node functions is   *)
(* applied once to a state that already holds a verification result.       *)

\* every result the verify node can have stored
VerificationResults ==
    {json_loads(verify_github_token_api("ghp_0123456789", h).value) : h \in HttpOutcomes}
        \cup {json_loads(verify_github_token_tool("ghp_0123456789", h).value) : h \in HttpOutcomes}
        \cup {[valid |-> FALSE, message |-> "No token provided.", status_code |-> 0]}

\* the state argument of a node called after the verify node
NodeInputs ==
    {GithubTokenVerificationState(Some("ghp_0123456789"), Some(r), a, None) :
        r \in VerificationResults, a \in {None, Some("The token is invalid.")}}

NodeInit ==
    /\ pc = "node"
    /\ state \in {Some(st) : st \in NodeInputs}
    /\ executed = << >>
    /\ calls = << >>
    /\ http = None
    /\ final_state = None
    /\ tool_http = None
    /\ tool_output = None
    /\ llm_log = << >>
    /\ ScriptsInit

\* node function fn returned or raised r, having drawn LLM outcome llm
Called(fn, r, llm) ==
    /\ pc = "node"
    /\ executed' = << fn >>
    /\ calls' = MadeCalls(r)
    /\ llm_log' = LlmLogged(r, llm)
    /\ state' = IF r.raised THEN state ELSE Some(r.value.state)
    /\ pc' = IF r.raised THEN "raised" ELSE "returned"
    /\ UNCHANGED <<http, final_state, tool_http, tool_output>>
    /\ UNCHANGED script_vars

CallAnalyzeResultNode ==
    \E llm \in LlmOutcomes :
        Called("analyze_result_node", analyze_result_node(state[1], llm), llm)

CallSuggestRemediationNode ==
    \E llm \in LlmOutcomes :
        Called("suggest_remediation_node", suggest_remediation_node(state[1], llm), llm)

CallAnalyzeVerificationResult ==
    \E llm \in LlmOutcomes :
        Called("analyze_verification_result", analyze_verification_result(state[1], llm), llm)

CallGenerateRemediationSuggestions ==
    \E llm \in LlmOutcomes :
        Called("generate_remediation_suggestions",
               generate_remediation_suggestions(state[1], llm), llm)

NodeNext ==
    \/ CallAnalyzeResultNode
    \/ CallSuggestRemediationNode
    \/ CallAnalyzeVerificationResult
    \/ CallGenerateRemediationSuggestions

NodeSpec == NodeInit /\ [][NodeNext]_vars

-----------------------------------------------------------------------------
(* The two verifiers called, any number of times up to MaxCalls, against   *)
(* one upstream that does not change between the calls.                    *)

\* id(conn) of the urllib3 connection objects that requests creates, one per
\* request
Addresses == {"0x7f3a5c1d2e90", "0x7f3a5c1d3fd0"}

\* requests.get against a host that refuses the connection: the
\* ConnectionError whose text names the connection object of this request
ConnectionRefused(address) ==
    Failure("request_exception",
            "HTTPSConnectionPool(host='api.github.com', port=443): Max retries exceeded "
            \o "with url: /user (Caused by NewConnectionError('<urllib3.connection."
            \o "HTTPSConnection object at " \o address \o ">: Failed to establish a new "
            \o "connection: [Errno 111] Connection refused'))")

\* what requests.get can do for one request against the upstream; an
\* upstream of kind "refusing" refuses every connection
RequestOutcomes(upstream) ==
    IF upstream.kind = "refusing" THEN {ConnectionRefused(a) : a \in Addresses}
    ELSE {upstream}

VerifierInit ==
    /\ WorkflowInit
    /\ verifier \in {Some([upstream |-> h, log |-> << >>]) :
                        h \in HttpOutcomes \cup {Failure("refusing", "")}}
    /\ runs = None
    /\ pager = None
    /\ dependabot = None
    /\ team_csv = None
    /\ endpoint = None

\* function fn was called and returned or raised r
VerifierCalled(fn, r) ==
    /\ Len(verifier[1].log) < MaxCalls
    /\ verifier' = Some([verifier[1] EXCEPT !.log = Append(@, [fn |-> fn, result |-> r])])
    /\ UNCHANGED <<workflow_vars, runs, pager, dependabot, team_csv, endpoint>>

CallVerifyGithubTokenApi ==
    \E h \in RequestOutcomes(verifier[1].upstream) :
        VerifierCalled("verify_github_token_api",
                       verify_github_token_api("ghp_0123456789", h))

CallVerifyGithubTokenTool ==
    \E h \in RequestOutcomes(verifier[1].upstream) :
        VerifierCalled("verify_github_token_tool",
                       verify_github_token_tool("ghp_0123456789", h))

VerifierNext == CallVerifyGithubTokenApi \/ CallVerifyGithubTokenTool

VerifierSpec == VerifierInit /\ [][VerifierNext]_vars

-----------------------------------------------------------------------------
(* Two calls of run on one GithubTokenVerificationWorkflow instance, from  *)
(* two threads: their node executions interleave in any order. The calls   *)
(* share the process: the dicts live in one heap and are reached through   *)
(* references, and both calls write diagram files into one directory. The  *)
(* graph definition self.workflow is built by __init__ and only read by    *)
(* run: it is entry_point, edges and path_map.                             *)

RunIds == {1, 2}

\* tokens passed to the two calls
ConcTokens == {Some(""), Some("ghp_0123456789"), Some("ghp_9876543210")}

\* what requests.get does for the verify node of either call
ConcOutcomes ==
    { Response(200, Some("a, b"), "object", None, "", FALSE, FALSE),
      Response(401, None, "invalid", None, "{\"message\": ", TRUE, TRUE),
      Response(401, None, "invalid", None, "{'a': 1}", TRUE, TRUE),
      Failure("timeout", "Read timed out.") }

\* what the LLM does for a node of either call
ConcLlmOutcomes ==
    { Returned("Generate a new token with the required scopes."),
      Raised(Exc(FALSE, FALSE, FALSE, "Connection error.")) }

\* datetime.datetime.now().strftime("%Y%m%d_%H%M%S") when a call writes its
\* diagram file
Seconds == {"20240101_120000", "20240101_120001"}

\* a call of run: its position, the token passed, the reference of the
\* dict it created as initial_state (0: none yet), the reference of the
\* state dict that invoke threads through the nodes (0: not invoked yet),
\* what its external calls did, and the reference of the dict it returned
\* (0: not returned)
IdleRun ==
    [pc |-> "idle", token |-> None, initial_state |-> 0, state |-> 0, http |-> None,
     llms |-> << >>, final |-> 0]

ConcInit ==
    /\ WorkflowInit
    /\ runs = Some([heap |-> << >>, files |-> {}, call |-> [r \in RunIds |-> IdleRun]])
    /\ verifier = None
    /\ pager = None
    /\ dependabot = None
    /\ team_csv = None
    /\ endpoint = None

\* a mutant: the state dict is created once and kept by the workflow
\* instance, and every call of run works on that one dict
NewDictReused(heap) == 1

\* the reference of the dict GithubTokenVerificationState(...) creates in
\* run: an object no other call holds
NewDict(heap) == Len(heap) + 1

\* the heap after the dict at reference ref was created with value d
Allocated(heap, ref, d) ==
    IF ref > Len(heap) THEN Append(heap, d) ELSE [heap EXCEPT ![ref] = d]

\* the state dict of call r
ConcState(r) == runs[1].heap[runs[1].call[r].state]

\* one step of compiled_graph.invoke of call r: node ran with result res,
\* which it stored in the dict the call holds
ConcStep(r, node, res, seen) ==
    IF res.raised
    THEN runs' = Some([seen EXCEPT !.call[r].pc = "raised"])
    ELSE runs' = Some([seen EXCEPT !.heap[seen.call[r].state] = res.value.state,
                                   !.call[r].pc = next_node(node, res.value.state)])

ConcUnchanged == UNCHANGED <<workflow_vars, verifier, pager, dependabot, team_csv, endpoint>>

\* run creates initial_state and goes on to compile and draw the graph
ConcRun(r, token) ==
    /\ runs[1].call[r].pc = "idle"
    /\ runs[1].call[r].final = 0
    /\ LET ref == NewDict(runs[1].heap)
           initial_state == GithubTokenVerificationState(token, None, None, None)
       IN  runs' = Some([runs[1] EXCEPT
               !.heap = Allocated(@, ref, initial_state),
               !.call[r].token = token,
               !.call[r].initial_state = ref,
               !.call[r].pc = "display_mermaid_graph"])
    /\ ConcUnchanged

\* the try around the diagram: _display_mermaid_graph writes the file named
\* by the clock, or an exception (draw_mermaid, open, webbrowser.open before
\* the file exists) is printed and no file is written; either way run goes
\* on to compiled_graph.invoke(initial_state)
ConcDisplayMermaidGraph(r) ==
    /\ runs[1].call[r].pc = "display_mermaid_graph"
    /\ \E written \in {{}} \cup {{"langgraph_workflow_" \o second \o ".html"} :
                                    second \in Seconds} :
          runs' = Some([runs[1] EXCEPT
              !.files = @ \cup written,
              !.call[r].state = runs[1].call[r].initial_state,
              !.call[r].pc = entry_point])
    /\ ConcUnchanged

ConcVerifyToken(r) ==
    /\ runs[1].call[r].pc = "verify_token"
    /\ \E h \in ConcOutcomes :
       \E res \in {call_github_verifier_node(ConcState(r), h)} :
          ConcStep(r, "verify_token", res,
                   [runs[1] EXCEPT !.call[r].http =
                       IF TokenMissing(ConcState(r).token) THEN None ELSE Some(h)])
    /\ ConcUnchanged

ConcAnalyzeResult(r) ==
    /\ runs[1].call[r].pc = "analyze_result"
    /\ \E llm \in ConcLlmOutcomes :
       \E res \in {analyze_result_node(ConcState(r), llm)} :
          ConcStep(r, "analyze_result", res, [runs[1] EXCEPT !.call[r].llms = Append(@, llm)])
    /\ ConcUnchanged

ConcSuggestRemediation(r) ==
    /\ runs[1].call[r].pc = "suggest_remediation"
    /\ \E llm \in ConcLlmOutcomes :
       \E res \in {suggest_remediation_node(ConcState(r), llm)} :
          ConcStep(r, "suggest_remediation", res,
                   [runs[1] EXCEPT !.call[r].llms = Append(@, llm)])
    /\ ConcUnchanged

ConcReturn(r) ==
    /\ runs[1].call[r].pc = END
    /\ runs' = Some([runs[1] EXCEPT !.call[r].final = runs[1].call[r].state,
                                    !.call[r].pc = "idle"])
    /\ ConcUnchanged

ConcNext ==
    \E r \in RunIds :
        \/ \E token \in ConcTokens : ConcRun(r, token)
        \/ ConcDisplayMermaidGraph(r)
        \/ ConcVerifyToken(r)
        \/ ConcAnalyzeResult(r)
        \/ ConcSuggestRemediation(r)
        \/ ConcReturn(r)

ConcSpec == ConcInit /\ [][ConcNext]_vars

-----------------------------------------------------------------------------
(* The pagination loops of user_list.py, verify_dependabot_status.py and   *)
(* branching_and_versioning.py. An item of a page is the login (or slug,   *)
(* or branch name) it carries.                                             *)

\* the items of one page
PageItems == { << >>, << "alice" >>, << "bob", "carol" >> }

\* the Link header of a response: absent, with or without rel="next"
LinkHeaders ==
    { None, Some("<https://api.github.com/x?page=2>; rel=\"next\""),
      Some("<https://api.github.com/x?page=1>; rel=\"prev\"") }

\* a response to a page request; json_ok: response.json() returns items
PageResponse(status, items, link, json_ok) ==
    [kind |-> "response", status_code |-> status, items |-> items, link |-> link,
     json_ok |-> json_ok,
     exc |-> Exc(FALSE, FALSE, TRUE, "Expecting value: line 1 column 1 (char 0)")]

\* requests.get raised instead
PageFailure(exc) ==
    [kind |-> "failure", status_code |-> 0, items |-> << >>, link |-> None,
     json_ok |-> FALSE, exc |-> exc]

\* 'Link' in headers and 'rel="next"' in headers['Link']
HasNext(resp) == resp.link # None /\ StrContains("rel=\"next\"", resp.link[1])

\* the loop goes on to the next page after this response
Continues(resp) ==
    /\ resp.kind = "response"
    /\ resp.status_code = 200
    /\ resp.json_ok
    /\ resp.items # << >>
    /\ HasNext(resp)

AllPageOutcomes ==
    {PageResponse(200, items, link, TRUE) : items \in PageItems, link \in LinkHeaders}
        \cup {PageResponse(200, << >>, None, FALSE)}
        \cup {PageResponse(st, << >>, None, ok) : st \in {403, 404, 500}, ok \in BOOLEAN}
        \cup {PageFailure(Exc(FALSE, TRUE, FALSE, "Max retries exceeded")),
              PageFailure(Exc(FALSE, FALSE, FALSE, "unexpected keyword argument"))}

\* what the upstream does for a request of page n: the listing ends at page
\* MaxPages at the latest
PageOutcomes(n) ==
    IF n < MaxPages THEN AllPageOutcomes
    ELSE {resp \in AllPageOutcomes : ~Continues(resp)}

Loops == {"fetch_paginated", "org_members", "teams", "team_members", "branches"}

\* a loop about to request its first page; returned is the list that
\* fetch_paginated returns (user_list.py), the other loops are steps of
\* functions that return no list and leave it None
LoopStart(loop) ==
    [loop |-> loop, pc |-> "loop", page |-> 1, results |-> << >>, requested |-> << >>,
     returned |-> None]

\* the request of page lp.page was answered with resp
Requested(lp, resp) ==
    [lp EXCEPT !.requested = Append(@, [page |-> lp.page, resp |-> resp])]

\* the loop ends at position p
Ended(lp, p) == [lp EXCEPT !.pc = p]

\* the 200 branch shared by the loops that follow the Link header: an empty
\* page ends the loop, else the items are kept and the Link header decides
PageTaken(lp, resp) ==
    IF resp.items = << >> THEN Ended(lp, "done")
    ELSE LET kept == [lp EXCEPT !.results = @ \o resp.items]
         IN  IF HasNext(resp) THEN [kept EXCEPT !.page = @ + 1] ELSE Ended(kept, "done")

\* a mutant: the page counter advances by two
fetch_paginated_skips(lp, resp) ==
    LET asked == Requested(lp, resp)
    IN  IF resp.kind # "response" \/ resp.status_code # 200 \/ ~resp.json_ok
        THEN Ended(asked, "raised")
        ELSE IF resp.items = << >> THEN Ended(asked, "done")
        ELSE LET kept == [asked EXCEPT !.results = @ \o resp.items]
             IN  IF HasNext(resp) THEN [kept EXCEPT !.page = @ + 2] ELSE Ended(kept, "done")

\* one iteration of the loop of fetch_paginated (user_list.py): every
\* failure raises out of the function
fetch_paginated(lp, resp) ==
    LET asked == Requested(lp, resp)
    IN  IF resp.kind # "response" \/ resp.status_code # 200 \/ ~resp.json_ok
        THEN Ended(asked, "raised")
        ELSE PageTaken(asked, resp)

\* one iteration of the members loop of get_organization_roles_to_csv:
\* every failure ends the loop, the function goes on
org_members(lp, resp) ==
    LET asked == Requested(lp, resp)
    IN  IF resp.kind # "response" \/ resp.status_code # 200 \/ ~resp.json_ok
        THEN Ended(asked, "done")
        ELSE PageTaken(asked, resp)

\* one iteration of the teams loop of get_team_member_roles_to_csv: every
\* failure makes the function return False
teams(lp, resp) ==
    LET asked == Requested(lp, resp)
    IN  IF resp.kind # "response" \/ resp.status_code # 200 \/ ~resp.json_ok
        THEN Ended(asked, "returned_false")
        ELSE PageTaken(asked, resp)

\* one iteration of the members loop of one team: every failure ends the
\* loop, the function goes on with the next team
team_members(lp, resp) ==
    LET asked == Requested(lp, resp)
    IN  IF resp.kind # "response" \/ resp.status_code # 200 \/ ~resp.json_ok
        THEN Ended(asked, "done")
        ELSE PageTaken(asked, resp)

\* the first iteration of the branches loop of get_repository_info_to_csv:
\* per_page is not defined, the NameError leaves the function before the
\* request is made
branches(lp) == Ended(lp, "raised")

PagerInit ==
    /\ WorkflowInit
    /\ pager \in {Some(LoopStart(loop)) : loop \in Loops}
    /\ verifier = None
    /\ runs = None
    /\ dependabot = None
    /\ team_csv = None
    /\ endpoint = None

\* the loop is at lp after an iteration
Iterated(lp) ==
    /\ pager' = Some(lp)
    /\ UNCHANGED <<workflow_vars, verifier, runs, dependabot, team_csv, endpoint>>

\* an iteration of fetch_paginated; after the last one, return results
FetchPaginated ==
    /\ pager[1].loop = "fetch_paginated" /\ pager[1].pc = "loop"
    /\ \E resp \in PageOutcomes(pager[1].page) :
          LET lp == fetch_paginated(pager[1], resp)
          IN  Iterated(IF lp.pc = "done" THEN [lp EXCEPT !.returned = Some(lp.results)]
                       ELSE lp)

OrgMembers ==
    /\ pager[1].loop = "org_members" /\ pager[1].pc = "loop"
    /\ \E resp \in PageOutcomes(pager[1].page) : Iterated(org_members(pager[1], resp))

Teams ==
    /\ pager[1].loop = "teams" /\ pager[1].pc = "loop"
    /\ \E resp \in PageOutcomes(pager[1].page) : Iterated(teams(pager[1], resp))

TeamMembers ==
    /\ pager[1].loop = "team_members" /\ pager[1].pc = "loop"
    /\ \E resp \in PageOutcomes(pager[1].page) : Iterated(team_members(pager[1], resp))

Branches ==
    /\ pager[1].loop = "branches" /\ pager[1].pc = "loop"
    /\ Iterated(branches(pager[1]))

PagerNext == FetchPaginated \/ OrgMembers \/ Teams \/ TeamMembers \/ Branches

PagerSpec == PagerInit /\ [][PagerNext]_vars

-----------------------------------------------------------------------------
(* verify_dependabot_status (verify_dependabot_status.py), called for one  *)
(* repository.                                                             *)

Owner == "octo"
Repo == "demo"

DependabotStatuses == {200, 204, 401, 403, 404, 500}

\* every outcome of requests.get(api_url, headers=headers, timeout=15)
DependabotOutcomes ==
    {Response(st, None, b[1], b[2], b[3], b[4], b[5]) :
        st \in DependabotStatuses,
        b \in JsonBodies(UpstreamMessages) \cup NonObjectBodies(NonObjectTexts)
                 \cup InvalidBodies(BodyTexts)}
    \cup Timeouts \cup RequestFailures
    \cup {Failure("connection_error", "Connection refused")}

\* the result dict
DependabotResult(enabled, status_text, message, status_code, error_details) ==
    [owner |-> Owner, repo_name |-> Repo, enabled |-> enabled,
     status_text |-> status_text, message |-> message,
     status_code |-> status_code, error_details |-> error_details]

\* the else branch: the status line, with the message of a JSON object
\* body or the head of a body that json.JSONDecodeError rejects. "message"
\* in response_json is a TypeError for null, a number or a boolean, and
\* response_json['message'] is one for a list or a string
DependabotOther(h) ==
    LET line == "Unexpected HTTP status code: " \o ToString(h.status_code)
        parsed == response_json(h)
        told(details) ==
            Returned(DependabotResult(FALSE, "Error: API Response Issue",
                "Could not determine Dependabot status: " \o details,
                h.status_code, ""))
    IN  IF parsed.raised
        THEN IF parsed.exc.json_decode_error
             THEN told(line \o " - Response body: " \o StrPrefix(h.text, TextCut) \o "...")
             ELSE parsed
        ELSE IF ~parsed.value.iterable
             THEN Raised(Exc(FALSE, FALSE, FALSE,
                             "argument of type '" \o parsed.value.type_name
                                 \o "' is not iterable"))
        ELSE IF ~parsed.value.has_message THEN told(line)
        ELSE IF parsed.value.is_dict
             THEN told(line \o " - Message: " \o parsed.value.message[1])
        ELSE IF parsed.value.type_name = "list"
             THEN Raised(Exc(FALSE, FALSE, FALSE,
                             "list indices must be integers or slices, not str"))
             ELSE Raised(Exc(FALSE, FALSE, FALSE,
                             "string indices must be integers, not 'str'"))

\* the 403 branch: response.json().get("message", ...) outside any inner try
DependabotForbidden(h) ==
    LET parsed == response_json(h)
    IN  IF parsed.raised THEN parsed
        ELSE LET error_message ==
                     response_data_get(parsed.value,
                                       "Forbidden: Check token scope or access.")
             IN  IF error_message.raised THEN error_message
                 ELSE Returned(DependabotResult(FALSE, "Error: Forbidden",
                          "Forbidden: " \o error_message.value
                              \o ". Check token scopes ('repo' or 'public_repo') and access.",
                          h.status_code, ""))

\* the body of the try
DependabotTry(h) ==
    LET response == requests_get(h)
    IN  IF response.raised THEN response
        ELSE IF h.status_code = 204
        THEN Returned(DependabotResult(TRUE, "Enabled",
                 "Dependabot vulnerability alerts are ENABLED for "
                     \o Owner \o "/" \o Repo \o ".", h.status_code, ""))
        ELSE IF h.status_code = 404
        THEN Returned(DependabotResult(FALSE, "Disabled/Not Found",
                 "Dependabot vulnerability alerts are DISABLED for "
                     \o Owner \o "/" \o Repo \o " or repository not found.",
                 h.status_code, ""))
        ELSE IF h.status_code = 403 THEN DependabotForbidden(h)
        ELSE DependabotOther(h)

\* the except clauses, in order; connection tells a
\* requests.exceptions.ConnectionError
DependabotExcept(e, connection) ==
    IF e.timeout
    THEN DependabotResult(FALSE, "Error: Timeout",
             "Request timed out when connecting to GitHub API. Check network or API availability.",
             -1, "Timeout")
    ELSE IF connection
    THEN DependabotResult(FALSE, "Error: Connection",
             "Network connection error: Could not reach GitHub API. Details: " \o e.text,
             -2, e.text)
    ELSE IF e.request_exception
    THEN DependabotResult(FALSE, "Error: Request Failed",
             "An error occurred during the API request: " \o e.text, -3, e.text)
    ELSE DependabotResult(FALSE, "Error: Unexpected",
             "An unexpected error occurred: " \o e.text, -99, e.text)

\* verify_dependabot_status(token, owner, repo), with h what the request does
verify_dependabot_status(h) ==
    LET body == DependabotTry(h)
    IN  IF body.raised
        THEN Returned(DependabotExcept(body.exc, h.kind = "connection_error"))
        ELSE body

DependabotInit ==
    /\ WorkflowInit
    /\ dependabot \in {Some([upstream |-> h, result |-> None]) : h \in DependabotOutcomes}
    /\ verifier = None
    /\ runs = None
    /\ pager = None
    /\ team_csv = None
    /\ endpoint = None

CallVerifyDependabotStatus ==
    /\ dependabot[1].result = None
    /\ dependabot' = Some([dependabot[1] EXCEPT
                             !.result = Some(verify_dependabot_status(dependabot[1].upstream))])
    /\ UNCHANGED <<workflow_vars, verifier, runs, pager, team_csv, endpoint>>

DependabotNext == CallVerifyDependabotStatus

DependabotSpec == DependabotInit /\ [][DependabotNext]_vars

-----------------------------------------------------------------------------
(* get_team_member_roles_to_csv (verify_dependabot_status.py): the teams   *)
(* loop, the members loop of each team, the CSV. The function's return     *)
(* value is Some(TRUE), Some(FALSE) or None, Python's None.                *)

\* the upstream of this function serves pages of at most one item
BriefOutcomes(n) == {resp \in PageOutcomes(n) : Len(resp.items) <= 1}

\* what opening and writing the CSV file does: nothing raised; or an
\* IOError or another exception, raised by open (opened FALSE) or after open
\* created the file, with the first rows of data in the file by then
WriteOutcomes(data) ==
    {[raised |-> "none", opened |-> TRUE, rows |-> Len(data)]}
        \cup {[raised |-> e, opened |-> FALSE, rows |-> 0] : e \in {"io_error", "exception"}}
        \cup {[raised |-> e, opened |-> TRUE, rows |-> n] :
                  e \in {"io_error", "exception"}, n \in 0..Len(data)}

\* the function at its first teams request
TeamCsvStart ==
    [pc |-> "teams", lp |-> LoopStart("teams"), teams |-> << >>, team |-> 0,
     data |-> << >>, csv |-> None, write_error |-> None, result |-> None]

\* the function has returned v
TeamCsvReturned(t, v) == [t EXCEPT !.pc = "returned", !.result = v]

\* the rows appended for the members of a team
TeamRows(team_name, members) ==
    [i \in 1..Len(members) |-> [team_name |-> team_name, username |-> members[i]]]

\* after an iteration of the teams loop that left the loop at lp
AfterTeams(t, lp) ==
    IF lp.pc = "loop" THEN [t EXCEPT !.lp = lp]
    ELSE IF lp.pc = "returned_false" THEN TeamCsvReturned([t EXCEPT !.lp = lp], Some(FALSE))
    ELSE IF lp.results = << >> THEN TeamCsvReturned([t EXCEPT !.lp = lp], Some(FALSE))
    ELSE [t EXCEPT !.pc = "members", !.teams = lp.results, !.team = 1,
                   !.lp = LoopStart("team_members")]

\* after an iteration of the members loop of the current team
AfterTeamMembers(t, lp) ==
    IF lp.pc = "loop" THEN [t EXCEPT !.lp = lp]
    ELSE LET kept == [t EXCEPT !.lp = lp,
                               !.data = @ \o TeamRows(t.teams[t.team], lp.results)]
         IN  IF t.team < Len(t.teams)
             THEN [kept EXCEPT !.team = @ + 1, !.lp = LoopStart("team_members")]
             ELSE IF kept.data = << >> THEN TeamCsvReturned(kept, Some(FALSE))
             ELSE [kept EXCEPT !.pc = "write"]

\* the try around the write: True after the write, nothing returned after
\* an IOError, False after another exception. open(csv_filename, 'w')
\* creates the file, the header and the rows follow one by one: csv is the
\* complete rows the file holds when the function returns, None without a
\* file; write_error is the exception a handler caught
write_team_csv(t, w) ==
    LET file == IF w.opened THEN Some(SubSeq(t.data, 1, w.rows)) ELSE None
        failed == [t EXCEPT !.csv = file, !.write_error = Some(w.raised)]
    IN  IF w.raised = "none" THEN TeamCsvReturned([t EXCEPT !.csv = Some(t.data)], Some(TRUE))
        ELSE IF w.raised = "io_error" THEN TeamCsvReturned(failed, None)
        ELSE TeamCsvReturned(failed, Some(FALSE))

TeamCsvInit ==
    /\ WorkflowInit
    /\ team_csv = Some(TeamCsvStart)
    /\ verifier = None
    /\ runs = None
    /\ pager = None
    /\ dependabot = None
    /\ endpoint = None

TeamCsvUnchanged == UNCHANGED <<workflow_vars, verifier, runs, pager, dependabot, endpoint>>

TeamCsvTeams ==
    /\ team_csv[1].pc = "teams"
    /\ \E resp \in BriefOutcomes(team_csv[1].lp.page) :
           team_csv' = Some(AfterTeams(team_csv[1], teams(team_csv[1].lp, resp)))
    /\ TeamCsvUnchanged

TeamCsvMembers ==
    /\ team_csv[1].pc = "members"
    /\ \E resp \in BriefOutcomes(team_csv[1].lp.page) :
           team_csv' = Some(AfterTeamMembers(team_csv[1], team_members(team_csv[1].lp, resp)))
    /\ TeamCsvUnchanged

TeamCsvWrite ==
    /\ team_csv[1].pc = "write"
    /\ \E w \in WriteOutcomes(team_csv[1].data) :
           team_csv' = Some(write_team_csv(team_csv[1], w))
    /\ TeamCsvUnchanged

TeamCsvNext == TeamCsvTeams \/ TeamCsvMembers \/ TeamCsvWrite

TeamCsvSpec == TeamCsvInit /\ [][TeamCsvNext]_vars

-----------------------------------------------------------------------------
(* app.py: the graph and the endpoint POST /verify_token_langgraph/.       *)

\* WorkflowState(token=..., verification_result=..., ...): the class
\* declares four annotations and no __init__, so a call with arguments is a
\* TypeError
WorkflowState(token, result, analysis, remediation) ==
    Raised(Exc(FALSE, FALSE, FALSE, "WorkflowState() takes no arguments"))

\* call_token_verifier(state), with h what the request does
call_token_verifier(st, h) ==
    LET result_json == verify_github_token_tool(st.token[1], h)
    IN  IF result_json.raised THEN Aborted(result_json.exc, << "github_api" >>)
        ELSE Done([st EXCEPT !.verification_result = Some(json_loads(result_json.value))],
                  << "github_api" >>)

\* should_remediate(state)
should_remediate(st) ==
    IF AppResultGet(st, "valid") = Some(TRUE) THEN "end" ELSE "remediate"

\* a run of the graph stopped, or went on, after the nodes of executed
GraphRun(r, executed_nodes) == [result |-> r, executed |-> executed_nodes]

\* app_graph.invoke(initial_state): verify, analyze, then remediate unless
\* the result is valid; an exception of a node leaves invoke
app_graph_invoke(st, h, llms) ==
    LET remediated(r) ==
            GraphRun(IF r.raised THEN r ELSE Returned(r.value.state),
                     << "verify", "analyze", "remediate" >>)
        analyzed(a) ==
            IF a.raised THEN GraphRun(a, << "verify", "analyze" >>)
            ELSE IF should_remediate(a.value.state) = "end"
            THEN GraphRun(Returned(a.value.state), << "verify", "analyze" >>)
            ELSE remediated(generate_remediation_suggestions(a.value.state, llms[2]))
        verified(v) ==
            IF v.raised THEN GraphRun(v, << "verify" >>)
            ELSE analyzed(analyze_verification_result(v.value.state, llms[1]))
    IN  verified(call_token_verifier(st, h))

\* what a call of the endpoint did: its response or exception, the
\* WorkflowState objects built, the calls of invoke, the nodes executed
Handled(response, constructed, invoked, executed_nodes) ==
    [response |-> response, constructed |-> constructed, invoked |-> invoked,
     executed |-> executed_nodes]

\* the dict returned from the final state
EndpointBody(final) ==
    [token_valid |-> AppResultGet(final, "valid"),
     scopes |-> AppResultGet(final, "scopes"),
     analysis |-> final.analysis_message,
     remediation_suggestions |-> final.remediation_suggestions,
     status_code_from_github |-> AppResultGet(final, "status_code")]

\* verify_token_langgraph_endpoint(token_data); token is
\* token_data.get("token")
verify_token_langgraph_endpoint(token, h, llms) ==
    IF TokenMissing(token)
    THEN Handled(Returned([body |-> [error |-> "Token not provided"], status |-> 400]),
                 0, 0, << >>)
    ELSE LET answered(run) ==
                 IF run.result.raised
                 THEN Handled(Raised(run.result.exc), 1, 1, run.executed)
                 ELSE Handled(Returned(EndpointBody(run.result.value)), 1, 1, run.executed)
             built(initial_state) ==
                 IF initial_state.raised THEN Handled(initial_state, 0, 0, << >>)
                 ELSE answered(app_graph_invoke(initial_state.value, h, llms))
         IN  built(WorkflowState(token, None, Some(""), Some("")))

\* the "token" member of the request body: absent or null, empty, a token
EndpointTokens == {None} \cup ConcTokens

EndpointInit ==
    /\ WorkflowInit
    /\ endpoint \in {Some([token |-> t, upstream |-> h, llms |-> <<l1, l2>>, handled |-> None]) :
                         t \in EndpointTokens, h \in ConcOutcomes,
                         l1 \in LlmOutcomes, l2 \in LlmOutcomes}
    /\ verifier = None
    /\ runs = None
    /\ pager = None
    /\ dependabot = None
    /\ team_csv = None

CallEndpoint ==
    /\ endpoint[1].handled = None
    /\ endpoint' = Some([endpoint[1] EXCEPT !.handled =
                             Some(verify_token_langgraph_endpoint(
                                      endpoint[1].token, endpoint[1].upstream,
                                      endpoint[1].llms))])
    /\ UNCHANGED <<workflow_vars, verifier, runs, pager, dependabot, team_csv>>

EndpointNext == CallEndpoint

EndpointSpec == EndpointInit /\ [][EndpointNext]_vars

-----------------------------------------------------------------------------
(* Properties.                                                             *)

\* the state of the current run and its verification result
St == state[1]
VR == St.verification_result[1]

\* the verify node of the current run called the GitHub API and stored the
\* verifier's classification of outcome http[1]
Verified == http # None /\ state # None /\ St.verification_result # None

\* run has returned
RunReturned == final_state # None
FinalVR == final_state[1].verification_result[1]

\* what verify.py printed
ToolResult == json_loads(tool_output[1].value)

ExecutionOrder == << "verify_token", "analyze_result", "suggest_remediation" >>

\* C1: in every run the nodes execute in the order verify_token,
\* analyze_result, then optionally suggest_remediation, then END:
\* verify_token and analyze_result exactly once, suggest_remediation at most
\* once, and no node executes again after it has completed.
C1_NodeOrder ==
    /\ Len(executed) <= Len(ExecutionOrder)
    /\ executed = SubSeq(ExecutionOrder, 1, Len(executed))
    /\ pc = "verify_token" => executed = << >>
    /\ pc = "analyze_result" => executed = << "verify_token" >>
    /\ pc = "suggest_remediation" => executed = << "verify_token", "analyze_result" >>
    /\ (pc = END \/ RunReturned) => Len(executed) >= 2

C1_Witness == pc = END /\ executed = ExecutionOrder

\* C2: after analyze_result completes (it has written analysis_message; a
\* node that raises writes nothing), the workflow moves to
\* suggest_remediation if and only if verification_result.valid is false,
\* and directly to END in every other case.
C2_BranchOnValid ==
    /\ (Len(executed) = 2 /\ St.analysis_message # None) =>
          IF VR.valid = FALSE THEN pc = "suggest_remediation" ELSE pc \in {END, "idle"}
    /\ Len(executed) = 3 => VR.valid = FALSE

C2_Witness == Len(executed) = 2 /\ pc = "suggest_remediation" /\ VR.valid = FALSE

\* C3: a run whose verification result has valid = true never
\* makes the Remediation Advisor's LLM call and returns
\* remediation_suggestions = "Token is valid. No remediation needed.".
C3_FixedStringReturned ==
    (RunReturned /\ FinalVR.valid = TRUE) =>
        /\ \A i \in 1..Len(calls) : calls[i] # "llm_remediate"
        /\ final_state[1].remediation_suggestions =
              Some("Token is valid. No remediation needed.")

\* C4: a run whose verification result has valid = false makes the
\* Remediation Advisor's LLM call and returns a non-empty
\* remediation_suggestions, whether the LLM call succeeds or fails.
C4_InvalidGetsRemediation ==
    (RunReturned /\ FinalVR.valid = FALSE) =>
        /\ \E i \in 1..Len(calls) : calls[i] = "llm_remediate"
        /\ final_state[1].remediation_suggestions # None
        /\ final_state[1].remediation_suggestions # Some("")

\* C5: run with a missing or empty token is rejected before the verify node
\* is entered: no node executes and no external call is made.
C5_MissingTokenRejected ==
    (state # None /\ TokenMissing(St.token)) => (executed = << >> /\ calls = << >>)

\* an outcome other than an HTTP 200 response
NotOk(h) == ~(h.kind = "response" /\ h.status_code = 200)

\* result r reports outcome h as a failure, with the status_code the table
\* of the specification gives that outcome: the HTTP status of a response
\* (or -3 when its body is not parseable; -99, -100 or -4 when its body is
\* JSON of an unexpected shape), -1 for a timeout, -2 or -1 for a
\* connection or network error, -99, -100 or -4 for any other failure
FailureIdentified(h, r) ==
    /\ r.valid = FALSE
    /\ CASE h.kind = "response" /\ h.body = "object" -> r.status_code = h.status_code
         [] h.kind = "response" /\ h.body = "invalid" -> r.status_code \in {h.status_code, -3}
         [] h.kind = "response" /\ h.body = "non_object" ->
                r.status_code \in {h.status_code, -99, -100, -4}
         [] h.kind = "timeout" -> r.status_code = -1
         [] h.kind = "request_exception" -> r.status_code \in {-2, -1}
         [] OTHER -> r.status_code \in {-99, -100, -4}

\* C6: neither verifier raises past its own boundary: for every outcome of
\* the HTTP request it returns a result (the verify node never takes its
\* own except branch, status_code -100), and every outcome other than HTTP
\* 200 yields valid = false with the status_code that identifies the
\* failure.
C6_VerifierNeverRaises ==
    /\ Verified =>
          /\ VR.status_code # -100
          /\ NotOk(http[1]) => FailureIdentified(http[1], VR)
    /\ tool_output # None =>
          /\ ~tool_output[1].raised
          /\ NotOk(tool_http[1]) => FailureIdentified(tool_http[1], ToolResult)

\* the header split on commas, each entry trimmed, empty entries dropped
CommaSeparated(header) ==
    LET parts == StrSplit(header, ",")
    IN  SelectSeq([i \in 1..Len(parts) |-> StrStrip(parts[i])], LAMBDA x : x # "")

\* C7 (for responses with a JSON body): for every HTTP 200 response the
\* verifier returns valid = true, status_code = 200 and scopes equal to the
\* X-OAuth-Scopes header split on commas, trimmed, empty entries dropped,
\* with or without a space after each comma.
C7_ScopesCommaSeparated ==
    (Verified /\ http[1].kind = "response" /\ http[1].status_code = 200
        /\ http[1].body # "invalid") =>
        /\ VR.valid = TRUE
        /\ VR.status_code = 200
        /\ VR.scopes = CommaSeparated(DictGet(http[1].scopes_header, ""))

\* result r is the "unexpected response format" result
DecodeErrorResult(r) ==
    /\ r.valid = FALSE
    /\ r.scopes = << >>
    /\ r.status_code = -3
    /\ StrContains("Unexpected response format", r.message)

\* C8: when the response body is not JSON the verifier returns valid = false,
\* empty scopes and status_code -3 with an "Unexpected response format"
\* message, whatever the HTTP status (including 200).
C8_DecodeErrorSentinel ==
    /\ (Verified /\ http[1].kind = "response" /\ http[1].body = "invalid") =>
          DecodeErrorResult(VR)
    /\ (tool_output # None /\ tool_http[1].kind = "response"
            /\ tool_http[1].body = "invalid") =>
          DecodeErrorResult(ToolResult)

\* result r is the 401 result for response h
UnauthorizedResult(h, r) ==
    /\ r.valid = FALSE
    /\ r.scopes = << >>
    /\ r.status_code = 401
    /\ StrContains(DictGet(h.body_message, "Bad credentials"), r.message)

\* C9: for every HTTP 401 response the verifier returns valid = false,
\* scopes = [], status_code = 401 and a message that contains the upstream
\* message, or "Bad credentials" when the body carries no message.
C9_Unauthorized ==
    /\ (Verified /\ http[1].kind = "response" /\ http[1].status_code = 401) =>
          UnauthorizedResult(http[1], VR)
    /\ (tool_output # None /\ tool_http[1].kind = "response"
            /\ tool_http[1].status_code = 401) =>
          ~tool_output[1].raised /\ UnauthorizedResult(tool_http[1], ToolResult)

\* response h is a 403 whose upstream message mentions "rate limit" in some
\* letter case
RateLimited(h) ==
    /\ h.kind = "response"
    /\ h.status_code = 403
    /\ h.body = "object"
    /\ h.body_message # None
    /\ StrContains("rate limit", StrLower(h.body_message[1]))

\* C10: for every HTTP 403 response whose upstream message contains
\* "rate limit" in any letter case, verify_github_token_api returns
\* valid = false, status_code = 403 and the upstream message behind the
\* prefix "Rate limit exceeded or forbidden: ".
C10_RateLimitAnnotated ==
    (Verified /\ RateLimited(http[1])) =>
        /\ VR.valid = FALSE
        /\ VR.status_code = 403
        /\ VR.message = "Rate limit exceeded or forbidden: " \o http[1].body_message[1]
        /\ StrContains(http[1].body_message[1], VR.message)

C10_Witness ==
    /\ Verified
    /\ RateLimited(http[1])
    /\ ~StrContains("rate limit", http[1].body_message[1])
    /\ StrContains("Rate limit exceeded", VR.message)

\* response h is a 403 with a JSON object body
Forbidden(h) == h.kind = "response" /\ h.status_code = 403 /\ h.body = "object"

\* the upstream message of a 403, or the default of the 403 branch
ForbiddenMessage(h) == DictGet(h.body_message, "Access Forbidden.")

\* text mentions phrase, in some letter case
Mentions(phrase, text) == StrContains(phrase, StrLower(text))

\* C11: for every HTTP 403 response whose upstream message mentions
\* "resource not accessible" or "requires authentication" and not
\* "rate limit", verify_github_token_api returns the upstream message behind
\* a forbidden / insufficient-permissions prefix; a 403 message that
\* mentions none of the three phrases is returned unchanged.
C11_ForbiddenAnnotated ==
    (Verified /\ Forbidden(http[1]) /\ ~Mentions("rate limit", ForbiddenMessage(http[1]))) =>
        /\ VR.valid = FALSE
        /\ VR.status_code = 403
        /\ IF \/ Mentions("resource not accessible", ForbiddenMessage(http[1]))
              \/ Mentions("requires authentication", ForbiddenMessage(http[1]))
           THEN VR.message = "Token forbidden or insufficient permissions: "
                                 \o ForbiddenMessage(http[1])
           ELSE VR.message = ForbiddenMessage(http[1])

\* text s begins with prefix
StartsWith(prefix, s) == Len(s) >= Len(prefix) /\ SubSeq(s, 1, Len(prefix)) = prefix

\* response h has a status other than 200, 401 and 403
OtherStatus(h) == h.kind = "response" /\ h.status_code \notin {200, 401, 403}

\* result r is the "unexpected status" result for response h
UnexpectedResult(h, r) ==
    /\ r.valid = FALSE
    /\ r.scopes = << >>
    /\ r.status_code = h.status_code
    /\ StartsWith("Unexpected API response", r.message)

\* C12: for every HTTP response whose status is none of 200, 401 and 403
\* (204 included) each verifier returns valid = false, empty scopes,
\* status_code equal to that status and a message that begins with
\* "Unexpected API response".
C12_UnexpectedStatus ==
    /\ (Verified /\ OtherStatus(http[1])) => UnexpectedResult(http[1], VR)
    /\ (tool_output # None /\ OtherStatus(tool_http[1])) =>
          ~tool_output[1].raised /\ UnexpectedResult(tool_http[1], ToolResult)

\* the request of outcome h timed out
TimedOut(h) == h.kind = "timeout"

\* result r is the timeout result, and not the network-error result
TimeoutResult(r) ==
    /\ r.valid = FALSE
    /\ r.scopes = << >>
    /\ r.status_code = -1
    /\ Mentions("timed out", r.message)
    /\ ~StartsWith("Network or API request error", r.message)

\* result r reports outcome h as a timeout exactly when h is one
TimeoutDistinct(h, r) ==
    IF TimedOut(h) THEN TimeoutResult(r)
    ELSE r.status_code # -1 /\ ~Mentions("timed out", r.message)

\* C13: when the HTTP request times out each verifier returns
\* valid = false, empty scopes, status_code -1 and a message that says so;
\* a timeout never carries the sentinel or the message of another failure
\* category (nor another failure the timeout's).
C13_TimeoutDistinct ==
    /\ Verified => TimeoutDistinct(http[1], VR)
    /\ tool_output # None => TimeoutDistinct(tool_http[1], ToolResult)

\* the verify node of the current run has stored a result
ResultStored == state # None /\ St.verification_result # None

\* the verifier classified an HTTP response: the request returned one and
\* the status branch was reached without an exception
Classified == http # None /\ http[1].kind = "response" /\ ~ApiTry(http[1]).raised

\* C14: in every verification_result a run stores, status_code is negative
\* exactly when no HTTP response was classified (timeout, network error,
\* decode error, unexpected exception) and is the HTTP status of the
\* response otherwise.
C14_StatusCodeRanges ==
    ResultStored =>
        /\ ResultGet(VR, "status_code") # None
        /\ IF Classified
           THEN VR.status_code = http[1].status_code /\ VR.status_code > 0
           ELSE VR.status_code < 0

ResultFields == {"valid", "scopes", "message", "status_code"}

\* C15: every verification_result stored by the verify node has the four
\* fields valid, scopes, message and status_code, and its scopes are empty
\* whenever valid is false.
C15_ResultShape ==
    ResultStored =>
        /\ DOMAIN VR = ResultFields
        /\ VR.valid = FALSE => VR.scopes = << >>

\* C16: provided each external call returns or fails, every run reaches
\* END and returns the workflow state, whatever the verifier and the LLM
\* calls did: no node raises, and a started run eventually returns.
C16_RunTerminates ==
    /\ [](pc # "raised")
    /\ [][pc = END => (pc' = "idle" /\ final_state' = state)]_vars
    /\ (state # None /\ ~RunReturned) ~> (RunReturned /\ pc = "idle")

\* a node function was called on its own and has returned or raised
NodeCalled == pc \in {"returned", "raised"} /\ Len(executed) = 1

\* the field that node function fn writes
OwnField(fn) ==
    IF fn \in {"analyze_result_node", "analyze_verification_result"}
    THEN "analysis_message" ELSE "remediation_suggestions"

\* C17: when the LLM call of an analyze or remediation node fails, the
\* node returns (it does not raise) with a string that embeds the error in
\* its own field; this holds for the nodes of graph_nodes.py and of app.py.
C17_LlmFailureAbsorbed ==
    (NodeCalled /\ llm_log # << >> /\ llm_log[1].raised) =>
        /\ pc = "returned"
        /\ St[OwnField(executed[1])] # None
        /\ StrContains(llm_log[1].exc.text, St[OwnField(executed[1])][1])

RemediationNodes == {"suggest_remediation_node", "generate_remediation_suggestions"}

\* C18: the Remediation Advisor called with a result whose valid is true
\* returns with remediation_suggestions set to "Token is valid. No
\* remediation needed." and makes no LLM call; whenever it makes an LLM
\* call, valid is false.
C18_ValidShortCircuit ==
    (NodeCalled /\ executed[1] \in RemediationNodes) =>
        /\ VR.valid = TRUE =>
              /\ pc = "returned"
              /\ St.remediation_suggestions = Some("Token is valid. No remediation needed.")
              /\ calls = << >>
              /\ llm_log = << >>
        /\ (calls # << >> \/ llm_log # << >>) =>
              /\ VR.valid = FALSE
              /\ calls = << "llm_remediate" >>
              /\ Len(llm_log) = 1

C18_Witness ==
    /\ NodeCalled
    /\ executed[1] = "suggest_remediation_node"
    /\ VR.valid = TRUE
    /\ VR.scopes # << >>
    /\ St.remediation_suggestions = Some("Token is valid. No remediation needed.")
    /\ calls = << >>

Nodes == {"verify_token", "analyze_result", "suggest_remediation"}

\* the field the node at position p writes
NodeField(p) ==
    CASE p = "verify_token" -> "verification_result"
      [] p = "analyze_result" -> "analysis_message"
      [] p = "suggest_remediation" -> "remediation_suggestions"

\* C19: each node writes only its own field: the step of a node leaves the
\* token and the two other result fields as they were, and run returns the
\* state that reached END, so the returned token is the token passed in.
C19_NodesWriteOwnField ==
    [][ /\ pc \in Nodes =>
              \A f \in DOMAIN St \ {NodeField(pc)} : state'[1][f] = St[f]
        /\ pc = END => final_state' = state
      ]_vars

C19_Witness ==
    /\ RunReturned
    /\ pc = "idle"
    /\ final_state[1].token = Some("ghp_0123456789")
    /\ final_state[1].verification_result # None
    /\ final_state[1].analysis_message # None
    /\ final_state[1].remediation_suggestions # None

\* C20: in every state of a run analysis_message is set only if
\* verification_result is, and remediation_suggestions only if
\* analysis_message is; a node is entered, and has run, only after the
\* fields its predecessors write have been written.
C20_FieldsInOrder ==
    state # None =>
        /\ St.analysis_message # None => St.verification_result # None
        /\ St.remediation_suggestions # None => St.analysis_message # None
        /\ (pc = "analyze_result" \/ Len(executed) >= 2) => St.verification_result # None
        /\ (pc = "suggest_remediation" \/ Len(executed) >= 3) =>
              St.verification_result # None /\ St.analysis_message # None

C20_Witness ==
    /\ pc = "suggest_remediation"
    /\ St.verification_result # None
    /\ St.analysis_message # None
    /\ St.remediation_suggestions = None

\* the calls made against the unchanged upstream
VLog == verifier[1].log

\* C21: two calls of a verifier with the same token against an unchanged
\* upstream return identical results: no state is carried from one call to
\* the next.
C21_VerifierIdempotent ==
    \A i, j \in 1..Len(VLog) : VLog[i].fn = VLog[j].fn => VLog[i].result = VLog[j].result

\* the state run(token) returns when it runs alone, its HTTP request does h
\* and the LLM does llms[i] for the i-th LLM node
Alone(token, h, llms) ==
    LET analyzed(s2) ==
            IF next_node("analyze_result", s2) = END THEN s2
            ELSE suggest_remediation_node(s2, llms[2]).value.state
        verified(s1) == With(analyze_result_node(s1, llms[1]).value.state, analyzed)
        initial_state == GithubTokenVerificationState(token, None, None, None)
    IN  With(call_github_verifier_node(
                 initial_state, IF h = None THEN Failure("timeout", "") ELSE h[1]).value.state,
             verified)

\* the two calls and the dicts of the process
ConcCall == runs[1].call
ConcHeap == runs[1].heap

\* C22: two runs on one workflow instance, interleaved in any order, each
\* return the state they would return alone: no two calls hold the same
\* state dict, the dict a call returns is the one it would return alone,
\* and a step of one call leaves the other call and its dict, returned ones
\* included, as they were.
C22_RunsIsolated ==
    /\ [](\A r \in RunIds : \A o \in RunIds \ {r} :
            ConcCall[r].initial_state # 0 =>
                ConcCall[o].initial_state # ConcCall[r].initial_state)
    /\ [][\E r \in RunIds :
            /\ (ConcCall[r].final = 0 /\ runs'[1].call[r].final # 0) =>
                  runs'[1].heap[runs'[1].call[r].final] =
                      Alone(ConcCall[r].token, ConcCall[r].http, ConcCall[r].llms)
            /\ \A o \in RunIds \ {r} :
                  /\ runs'[1].call[o] = ConcCall[o]
                  /\ ConcCall[o].initial_state # 0 =>
                        runs'[1].heap[ConcCall[o].initial_state]
                            = ConcHeap[ConcCall[o].initial_state]]_vars

C22_Witness ==
    /\ ConcCall[1].final # 0
    /\ ConcCall[2].final # 0
    /\ ConcCall[1].token = Some("ghp_0123456789")
    /\ ConcCall[2].token = Some("ghp_9876543210")
    /\ ConcHeap[ConcCall[1].final].verification_result[1].valid = TRUE
    /\ ConcHeap[ConcCall[2].final].verification_result[1].status_code = 401
    /\ ConcHeap[ConcCall[2].final].verification_result[1].message
          = "Token is invalid or expired: {'a': 1}..."
    /\ ConcHeap[ConcCall[2].final].remediation_suggestions # None
    /\ ConcCall[2].llms # << >>
    /\ Cardinality(runs[1].files) = 1

\* the loop under observation and the page requests it has made
Loop == pager[1]
Asked == pager[1].requested

\* C23: every pagination loop stops requesting pages as soon as a page is
\* empty or its response has no rel="next" in the Link header: a request
\* follows only a non-empty page with rel="next", and a loop ends only
\* after it has been served a page that ends it.
C23_LoopsStopAtLastPage ==
    /\ \A i \in 1..(Len(Asked) - 1) : Continues(Asked[i].resp)
    /\ (Asked # << >> /\ ~Continues(Asked[Len(Asked)].resp)) => Loop.pc # "loop"
    /\ Loop.pc # "loop" => (Asked # << >> /\ ~Continues(Asked[Len(Asked)].resp))

\* the items of the pages served, in the order of the requests
RECURSIVE ItemsServed(_)
ItemsServed(asked) ==
    IF asked = << >> THEN << >> ELSE Head(asked).resp.items \o ItemsServed(Tail(asked))

\* the response did not have status 200
Not200(resp) == resp.kind = "response" /\ resp.status_code # 200

\* C29: fetch_paginated requests pages 1, 2, ..., k consecutively and
\* returns the concatenation of their items in page order; when a page
\* responds with a status other than 200 it raises and returns none of the
\* items of the earlier pages.
C29_PagesInOrder ==
    Loop.loop = "fetch_paginated" =>
        /\ \A i \in 1..Len(Asked) : Asked[i].page = i
        /\ Loop.pc = "done" => Loop.returned = Some(ItemsServed(Asked))
        /\ Loop.pc # "done" => Loop.returned = None
        /\ \A i \in 1..Len(Asked) :
               Not200(Asked[i].resp) => (i = Len(Asked) /\ Loop.pc = "raised")

\* three pages were read and their items returned
C29_Witness ==
    /\ Loop.loop = "fetch_paginated"
    /\ Loop.pc = "done"
    /\ Len(Asked) = 3
    /\ Loop.returned = Some(<< "alice", "bob", "carol", "alice" >>)

\* the call of verify_dependabot_status under observation
Upstream == dependabot[1].upstream
Status == dependabot[1].result[1]

\* C24: verify_dependabot_status never raises; it returns enabled = true
\* exactly for a response with status 204, the status of the response as
\* status_code for every response, and a negative status_code for every
\* transport failure.
C24_DependabotStatus ==
    dependabot[1].result # None =>
        /\ ~Status.raised
        /\ Status.value.enabled <=> (Upstream.kind = "response" /\ Upstream.status_code = 204)
        /\ Upstream.kind = "response" => Status.value.status_code = Upstream.status_code
        /\ Upstream.kind # "response" => Status.value.status_code < 0

\* C25: get_team_member_roles_to_csv returns a boolean: True when team
\* member data was fetched and the CSV was written, False in every other
\* case.
C25_TeamCsvBoolean ==
    team_csv[1].pc = "returned" =>
        /\ team_csv[1].result \in {Some(TRUE), Some(FALSE)}
        /\ team_csv[1].result = Some(TRUE)
               <=> /\ team_csv[1].data # << >>
                   /\ team_csv[1].csv = Some(team_csv[1].data)
                   /\ team_csv[1].write_error = None

\* C26: when a run of the main_workflow graph is at END,
\* remediation_suggestions is set (not None) if and only if
\* verification_result.valid is false; suggest_remediation is never entered
\* with a valid result, so its short-circuit branch is never taken in a run.
C26_RemediationIffInvalid ==
    /\ pc = END => (state[1].remediation_suggestions # None <=> VR.valid = FALSE)
    /\ pc = "suggest_remediation" => ResultGet(VR, "valid") # Some(TRUE)

\* a run at END after suggest_remediation stored the LLM's suggestions
C26_Witness ==
    /\ pc = END
    /\ VR.valid = FALSE
    /\ state[1].remediation_suggestions # None
    /\ calls = << "github_api", "llm_analyze", "llm_remediate" >>

\* the call of the endpoint under observation
Request == endpoint[1]
Answer == endpoint[1].handled[1]

\* C27: called with a missing or empty token the endpoint returns the
\* "Token not provided" error without building a workflow state or
\* executing a node; called with a non-empty token it invokes the graph
\* once and returns token_valid, scopes, analysis, remediation_suggestions
\* and status_code_from_github.
C27_EndpointContract ==
    Request.handled # None =>
        IF TokenMissing(Request.token)
        THEN /\ Answer.response =
                    Returned([body |-> [error |-> "Token not provided"], status |-> 400])
             /\ Answer.constructed = 0
             /\ Answer.invoked = 0
             /\ Answer.executed = << >>
        ELSE /\ ~Answer.response.raised
             /\ Answer.invoked = 1
             /\ DOMAIN Answer.response.value =
                    {"token_valid", "scopes", "analysis", "remediation_suggestions",
                     "status_code_from_github"}

\* the response has a JSON-parseable body, or the request failed in transport
Parseable(h) == h.kind # "response" \/ h.body # "invalid"

\* valid, scopes and status_code of a verifier's result
Verdict(r) ==
    LET v == json_loads(r.value) IN << v.valid, v.scopes, v.status_code >>

\* C28: verify_github_token_api and verify_github_token_tool return the
\* same valid, scopes and status_code for every HTTP response with a
\* JSON-parseable body and for every transport failure.
C28_VerifiersAgree ==
    Parseable(verifier[1].upstream) =>
        \A i, j \in 1..Len(VLog) :
            /\ ~VLog[i].result.raised
            /\ Verdict(VLog[i].result) = Verdict(VLog[j].result)

=============================================================================
